---- MODULE Spec2Model ----
(***************************************************************************)
(* The template compiler of src/python/03_prompt_template.py               *)
(* (class TemplateProcessor) with its main and make_api_request, main of   *)
(* src/python/11_tool_use.py, and interpret_safety_result of               *)
(* src/python/06_image_safety_check.py.  Text is a sequence of             *)
(* one-character strings; every regular expression of the source is an     *)
(* operator that computes what Python's re module computes for that        *)
(* pattern.                                                                *)
(***************************************************************************)
EXTENDS Integers, Sequences, FiniteSets, TLC

VARIABLES
    files,              \* the file system: the text of each path that exists
    template_path,      \* self.template_path, set by __init__
    constructed,        \* whether TemplateProcessor(...) has returned an object
    template_content,   \* self.template_content, set by __init__
    given,              \* the bindings the caller passed to the latest process call
    variables,          \* that dict as the call left it, items in insertion order
    after_comments,     \* processed after step 1 of the latest call
    after_subst,        \* processed after step 2
    after_cond,         \* processed after step 3
    output,             \* the string the latest call returned
    raised,             \* the exception that left the latest call, "" for none
    calls,              \* the number of process calls made on this processor
    first_given,        \* a caller's log: the bindings it passed to its first call,
    first_output,       \*   the string that call returned,
    between,            \*   and whether it has passed other bindings since
    pc,                 \* the statement a running script is at, "" when none runs
    environ,            \* os.environ: the value of each variable that is set
    argv,               \* sys.argv[1:]
    exit_status,        \* the exit status of the script, "" while it has not ended
    trace,              \* what the script has done to the outside, in order
    conn,               \* the HTTPSConnection of make_api_request: times opened, closed
    response,           \* how the latest API call ended: its result or its exception
    tool_calls,         \* 11_tool_use main: the tool_calls of the initial response
    tool_messages,      \* 11_tool_use main: the list tool_messages
    result,             \* the response handed to interpret_safety_result
    verdict             \* what interpret_safety_result returned, or how it ended

\* the state of the template processor and of its caller's log
processorVars == <<files, template_path, constructed, template_content, given, variables, after_comments,
                   after_subst, after_cond, output, raised, calls, first_given, first_output, between>>

\* the state of the scripts
scriptVars == <<pc, environ, argv, exit_status, trace, conn, response, tool_calls, tool_messages,
                result, verdict>>

vars == <<processorVars, scriptVars>>

----------------------------------------------------------------------------
(* Characters and strings *)

NL == "\n"
\* the characters str.strip() takes off, of those a text of the model holds
Whitespace == {" ", NL, "\t", "\r", "\f", "VT"}

\* s[i..] starts with p
StartsAt(s, i, p) ==
    /\ i >= 1
    /\ i + Len(p) - 1 <= Len(s)
    /\ \A k \in 1..Len(p) : s[i + k - 1] = p[k]

\* F applied to the value x: a local name for a value that is used more than once
Let(x, F(_)) == F(x)

\* the least element of a set of positive integers, 0 for the empty set
Least(S) == IF S = {} THEN 0 ELSE CHOOSE k \in S : \A m \in S : k <= m

\* least index >= i at which p occurs in s, 0 when there is none
Find(s, p, i) ==
    Least({k \in i..(Len(s) - Len(p) + 1) : s[k] = p[1] /\ StartsAt(s, k, p)})

Contains(s, p) == Find(s, p, 1) # 0

\* s[i..j-1]
Slice(s, i, j) == SubSeq(s, i, j - 1)

\* str.strip()
RECURSIVE FirstNonWs(_, _)
FirstNonWs(s, i) ==
    IF i > Len(s) THEN i
    ELSE IF s[i] \in Whitespace THEN FirstNonWs(s, i + 1)
    ELSE i

RECURSIVE LastNonWs(_, _)
LastNonWs(s, j) ==
    IF j < 1 THEN j
    ELSE IF s[j] \in Whitespace THEN LastNonWs(s, j - 1)
    ELSE j

strip(s) == SubSeq(s, FirstNonWs(s, 1), LastNonWs(s, Len(s)))

\* str.split('\n')
RECURSIVE split(_)
split(s) ==
    Let(Find(s, <<NL>>, 1), LAMBDA k :
        IF k = 0 THEN <<s>>
        ELSE <<Slice(s, 1, k)>> \o split(SubSeq(s, k + 1, Len(s))))

\* ''.join(lines): the lines put together with nothing between them
RECURSIVE join_Concat(_)
join_Concat(lines) ==
    IF Len(lines) = 0 THEN <<>>
    ELSE lines[1] \o join_Concat(Tail(lines))

\* '\n'.join(lines)
RECURSIVE join(_)
join(lines) ==
    IF Len(lines) = 0 THEN <<>>
    ELSE IF Len(lines) = 1 THEN lines[1]
    ELSE lines[1] \o <<NL>> \o join(Tail(lines))

----------------------------------------------------------------------------
(* Step 1 *)

CommentMarker == <<"/", "/", "/">>

\* the test without strip(): only a line that begins with the marker
IsCommentLine_Unstripped(line) == StartsAt(line, 1, CommentMarker)

IsCommentLine(line) == StartsAt(strip(line), 1, CommentMarker)

\* only the first comment line is dropped
_remove_comments_First(text) ==
    Let(split(text), LAMBDA lines :
    Let(Least({n \in 1..Len(lines) : IsCommentLine(lines[n])}), LAMBDA n :
        IF n = 0 THEN text
        ELSE join(SubSeq(lines, 1, n - 1) \o SubSeq(lines, n + 1, Len(lines)))))

_remove_comments(text) ==
    join(SelectSeq(split(text), LAMBDA line : ~IsCommentLine(line)))

----------------------------------------------------------------------------
(* Step 2 *)

\* the key line 183 skips
Topic == <<"T", "o", "p", "i", "c">>
\* the key line 204 reads
Category == <<"C", "a", "t", "e", "g", "o", "r", "y">>

\* str(value): a bound value is a string or an integer
Digits == <<"0", "1", "2", "3", "4", "5", "6", "7", "8", "9">>
RECURSIVE Decimal(_)
Decimal(n) ==
    IF n < 0 THEN <<"-">> \o Decimal(-n)
    ELSE IF n < 10 THEN <<Digits[n + 1]>>
    ELSE Decimal(n \div 10) \o Decimal(n % 10)

str(value) == IF value.type = "int" THEN Decimal(value.val) ELSE value.val

\* the text [[.key]]
PlaceholderPattern(key) == <<"[", "[", ".">> \o key \o <<"]", "]">>

PlaceholderOpen == <<"[", "[", ".">>
Close == <<"]", "]">>

\* the pattern f"\\[\\[\\.{key}\\]\\]" of line 185 matches text at i.  The key is
\* spliced into the pattern as it is, so a "." of the key stands for any
\* character but a newline (keys of word characters and ".")
PlaceholderAt(text, i, key) ==
    /\ StartsAt(text, i, PlaceholderOpen)
    /\ i + Len(PlaceholderPattern(key)) - 1 <= Len(text)
    /\ \A k \in 1..Len(key) :
           IF key[k] = "."
           THEN text[i + Len(PlaceholderOpen) + k - 1] # NL
           ELSE text[i + Len(PlaceholderOpen) + k - 1] = key[k]
    /\ StartsAt(text, i + Len(PlaceholderOpen) + Len(key), Close)

\* least index at which the pattern of key matches, 0 when there is none
FindPlaceholder(text, key) ==
    Least({k \in 1..Len(text) : text[k] = "[" /\ PlaceholderAt(text, k, key)})

Backslash == "\\"
AsciiLetters ==
    {"a", "b", "c", "d", "e", "f", "g", "h", "i", "j", "k", "l", "m", "n", "o",
     "p", "q", "r", "s", "t", "u", "v", "w", "x", "y", "z", "A", "B", "C", "D",
     "E", "F", "G", "H", "I", "J", "K", "L", "M", "N", "O", "P", "Q", "R", "S",
     "T", "U", "V", "W", "X", "Y", "Z"}
GroupDigits == {"1", "2", "3", "4", "5", "6", "7", "8", "9"}

\* the escapes re's replacement template converts to one character; the
\* characters a TLA+ string cannot hold go by their names
Escapes == {Backslash, "n", "t", "r", "f", "a", "b", "v", "0"}
EscapeOf(c) ==
    CASE c = Backslash -> Backslash
      [] c = "n" -> NL
      [] c = "t" -> "\t"
      [] c = "r" -> "\r"
      [] c = "f" -> "\f"
      [] c = "a" -> "BEL"
      [] c = "b" -> "BS"
      [] c = "v" -> "VT"
      [] c = "0" -> "NUL"

\* head followed by what the rest of a template expands to
Expanded(head, rest) ==
    IF rest.raised # "" THEN rest
    ELSE [text |-> head \o rest.text, raised |-> ""]

\* what re.sub makes of its replacement string before it looks for a match,
\* for a pattern without groups: \\ \n \t ... are converted, a backslash
\* before a digit 1-9 refers to a group the pattern does not have, a
\* backslash before another ASCII letter or at the end is a bad escape (both
\* raise re.error), a backslash before any other character stays as it is.
\* (Replacement strings with at most one digit after a backslash and without
\* the reference \g<0>.)
RECURSIVE expand_template(_)
expand_template(repl) ==
    IF Len(repl) = 0 THEN [text |-> <<>>, raised |-> ""]
    ELSE IF repl[1] # Backslash
    THEN Expanded(<<repl[1]>>, expand_template(Tail(repl)))
    ELSE IF Len(repl) = 1 THEN [text |-> <<>>, raised |-> "re.error"]
    ELSE IF repl[2] \in Escapes
    THEN Expanded(<<EscapeOf(repl[2])>>, expand_template(SubSeq(repl, 3, Len(repl))))
    ELSE IF repl[2] \in GroupDigits \cup AsciiLetters
    THEN [text |-> <<>>, raised |-> "re.error"]
    ELSE Expanded(<<Backslash, repl[2]>>, expand_template(SubSeq(repl, 3, Len(repl))))

\* only the first match is replaced, as re.sub with count=1 does
SubPlaceholders_Once(key, repl, text) ==
    Let(FindPlaceholder(text, key), LAMBDA k :
        IF k = 0 THEN text
        ELSE Slice(text, 1, k) \o repl
             \o SubSeq(text, k + Len(PlaceholderPattern(key)), Len(text)))

\* every match of the pattern of key, leftmost first, replaced by repl
RECURSIVE SubPlaceholders(_, _, _)
SubPlaceholders(key, repl, text) ==
    Let(FindPlaceholder(text, key), LAMBDA k :
        IF k = 0 THEN text
        ELSE Slice(text, 1, k) \o repl
             \o SubPlaceholders(key, repl,
                    SubSeq(text, k + Len(PlaceholderPattern(key)), Len(text))))

\* line 186: re.sub(pattern, str(value), text); raised is the exception that
\* leaves it, "" for none
re_sub(key, repl, text) ==
    Let(expand_template(repl), LAMBDA t :
        IF t.raised # "" THEN [text |-> <<>>, raised |-> t.raised]
        ELSE [text |-> SubPlaceholders(key, t.text, text), raised |-> ""])

\* re.sub(pattern, repl, text) for a pattern and a replacement that are
\* literal text
RECURSIVE re_sub_literal(_, _, _)
re_sub_literal(pattern, repl, text) ==
    Let(Find(text, pattern, 1), LAMBDA k :
        IF k = 0 THEN text
        ELSE Slice(text, 1, k) \o repl
             \o re_sub_literal(pattern, repl, SubSeq(text, k + Len(pattern), Len(text))))

\* the loop with no key skipped
RECURSIVE SubstituteFrom_NoSkip(_, _, _)
SubstituteFrom_NoSkip(text, vs, n) ==
    IF n > Len(vs) THEN [text |-> text, raised |-> ""]
    ELSE Let(re_sub(vs[n].key, str(vs[n].value), text), LAMBDA r :
             IF r.raised # "" THEN r ELSE SubstituteFrom_NoSkip(r.text, vs, n + 1))

\* the loop skipping the selector key instead of Topic
RECURSIVE SubstituteFrom_SkipSelector(_, _, _)
SubstituteFrom_SkipSelector(text, vs, n) ==
    IF n > Len(vs) THEN [text |-> text, raised |-> ""]
    ELSE IF vs[n].key = Category THEN SubstituteFrom_SkipSelector(text, vs, n + 1)
    ELSE Let(re_sub(vs[n].key, str(vs[n].value), text), LAMBDA r :
             IF r.raised # "" THEN r ELSE SubstituteFrom_SkipSelector(r.text, vs, n + 1))

\* the loop of lines 181-186 from the n-th item of variables.items() on
RECURSIVE SubstituteFrom(_, _, _)
SubstituteFrom(text, vs, n) ==
    IF n > Len(vs) THEN [text |-> text, raised |-> ""]
    ELSE IF vs[n].key = Topic THEN SubstituteFrom(text, vs, n + 1)
    ELSE Let(re_sub(vs[n].key, str(vs[n].value), text), LAMBDA r :
             IF r.raised # "" THEN r ELSE SubstituteFrom(r.text, vs, n + 1))

\* step 2 substituting every key, Topic included
_substitute_variables_All(text, vs) == SubstituteFrom_NoSkip(text, vs, 1)

_substitute_variables(text, vs) == SubstituteFrom(text, vs, 1)

----------------------------------------------------------------------------
(* Step 3 *)

IfHead == <<"[", "[", "i", "f", " ", ".", "C", "a", "t", "e", "g", "o", "r", "y", " ", "=", "=", " ", "\"">>
ElseIfHead == <<"[", "[", "e", "l", "s", "e", " ", "i", "f", " ", ".", "C", "a", "t", "e", "g", "o", "r", "y", " ", "=", "=", " ", "\"">>
QuoteClose == <<"\"", "]", "]">>
ElseOpen == <<"[", "[", "e", "l", "s", "e">>
ElseMarker == <<"[", "[", "e", "l", "s", "e", "]", "]">>
EndMarker == <<"[", "[", "e", "n", "d", "]", "]">>

\* variables.get('Category', ''): the item with that key, of which a dict
\* holds one at most
NoCategory == [type |-> "str", val |-> <<>>]
GetCategory(vs) ==
    Let(Least({n \in 1..Len(vs) : vs[n].key = Category}), LAMBDA n :
        IF n = 0 THEN NoCategory ELSE vs[n].value)

\* line 217 left out: the else clauses stay in the content
RemoveElseBlocks_Kept(content) == content

\* line 217: re.sub(r'\[\[else.*?\]\].*?(?=\[\[end\]\]|\Z)', '', content, DOTALL)
RECURSIVE RemoveElseBlocks(_)
RemoveElseBlocks(content) ==
    Let(Find(content, ElseOpen, 1), LAMBDA i :
    Let(IF i = 0 THEN 0 ELSE Find(content, Close, i + Len(ElseOpen)), LAMBDA j :
    Let(IF j = 0 THEN 0 ELSE Find(content, EndMarker, j + Len(Close)), LAMBDA e :
        IF j = 0 THEN content
        ELSE IF e = 0 THEN Slice(content, 1, i)
        ELSE Slice(content, 1, i)
             \o RemoveElseBlocks(SubSeq(content, e, Len(content))))))

\* least index >= i where [[else or [[end]] starts, 0 when there is none
NextElseOrEnd(content, i) ==
    Least({k \in {Find(content, ElseOpen, i), Find(content, EndMarker, i)} : k # 0})

\* lines 221-224: re.search of the else-if pattern built from category, from
\* index i on; the body it captures, or no match
RECURSIVE SearchElseIf(_, _, _)
SearchElseIf(content, marker, i) ==
    Let(Find(content, marker, i), LAMBDA k :
    Let(IF k = 0 THEN 0 ELSE NextElseOrEnd(content, k + Len(marker)), LAMBDA t :
        IF k = 0 THEN [found |-> FALSE, body |-> <<>>]
        ELSE IF t # 0
        THEN [found |-> TRUE, body |-> Slice(content, k + Len(marker), t)]
        ELSE SearchElseIf(content, marker, k + 1)))

\* the pattern of line 227 without its \Z alternative, as the else-if pattern
\* of line 221 is written: the body must be followed by [[end]]
SearchElse_NoZ(content) ==
    Let(Find(content, ElseMarker, 1), LAMBDA k :
    Let(IF k = 0 THEN 0 ELSE Find(content, EndMarker, k + Len(ElseMarker)), LAMBDA e :
        IF e = 0 THEN [found |-> FALSE, body |-> <<>>]
        ELSE [found |-> TRUE, body |-> Slice(content, k + Len(ElseMarker), e)]))

\* lines 227-230: re.search(r'\[\[else\]\](.*?)(?=\[\[end\]\]|\Z)', content, DOTALL)
SearchElse(content) ==
    Let(Find(content, ElseMarker, 1), LAMBDA k :
    Let(IF k = 0 THEN 0 ELSE Find(content, EndMarker, k + Len(ElseMarker)), LAMBDA e :
        IF k = 0 THEN [found |-> FALSE, body |-> <<>>]
        ELSE [found |-> TRUE,
              body |-> Slice(content, k + Len(ElseMarker),
                             IF e = 0 THEN Len(content) + 1 ELSE e)]))

\* lines 209-232; raised is the exception that leaves the function, "" for none:
\* re.escape of a category that is not a string raises TypeError
replace_conditional(condition_value, content, category) ==
    IF category.type = "str" /\ condition_value = category.val
    THEN [text |-> strip(RemoveElseBlocks(content)), raised |-> ""]
    ELSE IF category.type # "str"
    THEN [text |-> <<>>, raised |-> "TypeError"]
    ELSE Let(SearchElseIf(content, ElseIfHead \o category.val \o QuoteClose, 1),
             LAMBDA elif :
         Let(SearchElse(content), LAMBDA els :
             IF elif.found THEN [text |-> strip(elif.body), raised |-> ""]
             ELSE IF els.found THEN [text |-> strip(els.body), raised |-> ""]
             ELSE [text |-> <<>>, raised |-> ""]))

\* re.sub with count=1: only the first block is replaced
SubConditionals_First(text, category) ==
    Let(Find(text, IfHead, 1), LAMBDA i :
    Let(IF i = 0 THEN 0 ELSE Find(text, QuoteClose, i + Len(IfHead)), LAMBDA j :
    Let(IF j = 0 THEN 0 ELSE Find(text, EndMarker, j + Len(QuoteClose)), LAMBDA k :
        IF k = 0 THEN [text |-> text, raised |-> ""]
        ELSE Let(replace_conditional(Slice(text, i + Len(IfHead), j),
                                     Slice(text, j + Len(QuoteClose), k),
                                     category), LAMBDA r :
             IF r.raised # "" THEN [text |-> <<>>, raised |-> r.raised]
             ELSE [text |-> Slice(text, 1, i) \o r.text
                            \o SubSeq(text, k + Len(EndMarker), Len(text)),
                   raised |-> ""]))))

\* line 235: re.sub(pattern, replace_conditional, text, flags=re.DOTALL) with
\* pattern \[\[if \.Category == "(.*?)"\]\](.*?)\[\[end\]\]
RECURSIVE SubConditionals(_, _)
SubConditionals(text, category) ==
    Let(Find(text, IfHead, 1), LAMBDA i :
    Let(IF i = 0 THEN 0 ELSE Find(text, QuoteClose, i + Len(IfHead)), LAMBDA j :
    Let(IF j = 0 THEN 0 ELSE Find(text, EndMarker, j + Len(QuoteClose)), LAMBDA k :
        IF k = 0 THEN [text |-> text, raised |-> ""]
        ELSE Let(replace_conditional(Slice(text, i + Len(IfHead), j),
                                     Slice(text, j + Len(QuoteClose), k),
                                     category), LAMBDA r :
             IF r.raised # "" THEN [text |-> <<>>, raised |-> r.raised]
             ELSE Let(SubConditionals(SubSeq(text, k + Len(EndMarker), Len(text)),
                                      category), LAMBDA rest :
                  IF rest.raised # "" THEN rest
                  ELSE [text |-> Slice(text, 1, i) \o r.text \o rest.text,
                        raised |-> ""])))))

_process_conditionals(text, vs) == SubConditionals(text, GetCategory(vs))

----------------------------------------------------------------------------
(* Step 4 *)

IfOpen == <<"[", "[", "i", "f">>

\* re.sub(open + r'.*?\]\]', '', text) without DOTALL: the dot stops at a newline
RECURSIVE RemoveMarker(_, _)
RemoveMarker(open, text) ==
    Let(Find(text, open, 1), LAMBDA i :
    Let(IF i = 0 THEN 0 ELSE Find(text, Close, i + Len(open)), LAMBDA j :
    Let(IF i = 0 THEN 0 ELSE Find(text, <<NL>>, i + Len(open)), LAMBDA n :
        IF i = 0 THEN text
        ELSE IF j = 0 \/ (n # 0 /\ n < j)
        THEN Slice(text, 1, i + 1)
             \o RemoveMarker(open, SubSeq(text, i + 1, Len(text)))
        ELSE Slice(text, 1, i)
             \o RemoveMarker(open, SubSeq(text, j + Len(Close), Len(text))))))

\* the end of the run of newlines that starts at i
RECURSIVE EndOfNewlines(_, _)
EndOfNewlines(text, i) ==
    IF i <= Len(text) /\ text[i] = NL THEN EndOfNewlines(text, i + 1) ELSE i

\* line 254 left out: the runs of newlines stay as they are
CollapseBlankLines_Kept(text) == text

\* line 254: re.sub(r'\n\n\n+', '\n\n', text)
RECURSIVE CollapseBlankLines(_)
CollapseBlankLines(text) ==
    Let(Find(text, <<NL, NL, NL>>, 1), LAMBDA i :
        IF i = 0 THEN text
        ELSE Slice(text, 1, i) \o <<NL, NL>>
             \o CollapseBlankLines(SubSeq(text, EndOfNewlines(text, i), Len(text))))

\* the cleanup taking placeholders for markers as well
_cleanup_markers_Placeholders(text) ==
    strip(CollapseBlankLines(
        re_sub_literal(EndMarker, <<>>,
            RemoveMarker(ElseOpen,
                RemoveMarker(IfOpen, RemoveMarker(PlaceholderOpen, text))))))

\* step 4 without the final strip()
_cleanup_markers_Untrimmed(text) ==
    CollapseBlankLines(
        re_sub_literal(EndMarker, <<>>,
            RemoveMarker(ElseOpen, RemoveMarker(IfOpen, text))))

\* step 4 collapsing the blank lines before it removes the markers
_cleanup_markers_CollapseFirst(text) ==
    strip(re_sub_literal(EndMarker, <<>>,
        RemoveMarker(ElseOpen, RemoveMarker(IfOpen, CollapseBlankLines(text)))))

_cleanup_markers(text) ==
    strip(CollapseBlankLines(
        re_sub_literal(EndMarker, <<>>,
            RemoveMarker(ElseOpen, RemoveMarker(IfOpen, text)))))

----------------------------------------------------------------------------
(* process *)

\* process with step 2 assigning to self.template_content instead of the local
process_Stores(content, vs) ==
    Let(_remove_comments(content), LAMBDA s1 :
    Let(_substitute_variables(s1, vs), LAMBDA s2 :
    Let(IF s2.raised = "" THEN _process_conditionals(s2.text, vs) ELSE s2, LAMBDA s3 :
        [template_content |-> s2.text, variables |-> vs,
         after_comments |-> s1, after_subst |-> s2.text,
         after_cond |-> s3.text, raised |-> s3.raised,
         output |-> IF s3.raised = "" THEN _cleanup_markers(s3.text) ELSE <<>>])))

\* process with steps 2 and 3 exchanged: the conditionals are resolved on the
\* text that still holds its placeholders
process_ConditionalsFirst(content, vs) ==
    Let(_remove_comments(content), LAMBDA s1 :
    Let(_process_conditionals(s1, vs), LAMBDA s2 :
    Let(IF s2.raised = "" THEN _substitute_variables(s2.text, vs) ELSE s2, LAMBDA s3 :
        [template_content |-> content, variables |-> vs,
         after_comments |-> s1, after_subst |-> s3.text,
         after_cond |-> s2.text, raised |-> s3.raised,
         output |-> IF s3.raised = "" THEN _cleanup_markers(s3.text) ELSE <<>>])))

\* lines 142-156: the four steps, each on the local `processed`; an exception
\* of step 2 or of step 3 leaves process.  template_content and variables are the objects
\* the call was handed, as it leaves them: no step assigns to either.
process(content, vs) ==
    Let(_remove_comments(content), LAMBDA s1 :
    Let(_substitute_variables(s1, vs), LAMBDA s2 :
    Let(IF s2.raised = "" THEN _process_conditionals(s2.text, vs) ELSE s2, LAMBDA s3 :
        [template_content |-> content, variables |-> vs,
         after_comments |-> s1, after_subst |-> s2.text,
         after_cond |-> s3.text, raised |-> s3.raised,
         output |-> IF s3.raised = "" THEN _cleanup_markers(s3.text) ELSE <<>>])))

----------------------------------------------------------------------------
(* Bindings: a dict is the sequence of its items in insertion order *)

Now == <<"N", "o", "w">>

\* Python values other than the str and int of the bindings
None == [type |-> "NoneType", val |-> <<>>]
List(items) == [type |-> "list", val |-> items]
Dict(items) == [type |-> "dict", val |-> items]

Str(s) == [type |-> "str", val |-> s]
Item(k, s) == [key |-> k, value |-> Str(s)]
Num(n) == [type |-> "int", val |-> n]
NumItem(k, n) == [key |-> k, value |-> Num(n)]

Keys(vs) == {vs[n].key : n \in 1..Len(vs)}
Bound(vs, k) == vs[CHOOSE n \in 1..Len(vs) : vs[n].key = k].value

\* the dicts over the given items: every ordering of every choice of one
\* value for some of the keys
Dicts(items) ==
    {vs \in UNION {[1..n -> items] : n \in 0..Cardinality({i.key : i \in items})} :
        \A a, b \in 1..Len(vs) : a # b => vs[a].key # vs[b].key}

----------------------------------------------------------------------------
(* Templates with one well-formed conditional block *)

MaxElseIf == 2

Literals == {<<"A">>, <<"B">>, <<>>}

\* a block: the literal of its if clause, the literals of its else-if clauses
\* in order, and whether a bare else clause closes it
Blocks ==
    [lit : Literals,
     elifs : UNION {[1..n -> Literals] : n \in 0..MaxElseIf},
     else : BOOLEAN]

Before == <<"x">>
After == <<"y">>
IfBody == <<" ", "p", NL>>
ElseIfBody(n) == <<NL, <<"q", "r", "s", "t">>[n], " ">>
ElseBody == <<NL, "z", NL>>

RECURSIVE ElseIfClauses(_, _)
ElseIfClauses(elifs, n) ==
    IF n > Len(elifs) THEN <<>>
    ELSE ElseIfHead \o elifs[n] \o QuoteClose \o ElseIfBody(n)
         \o ElseIfClauses(elifs, n + 1)

BlockText(b) ==
    IfHead \o b.lit \o QuoteClose \o IfBody
    \o ElseIfClauses(b.elifs, 1)
    \o (IF b.else THEN ElseMarker \o ElseBody ELSE <<>>)
    \o EndMarker

BlockTemplate(b) == Before \o BlockText(b) \o After

\* the template of the essay-style scenario: a comment line, a line with a
\* placeholder, a block with an if, an else-if and a bare else clause
ScenarioTemplate ==
    <<"/", "/", "/", " ", "c", "o", "m", "m", "e", "n", "t", NL, "T", "o",
      "p", "i", "c", ":", " ", "[", "[", ".", "T", "o", "p", "i", "c", "]",
      "]", NL, "[", "[", "i", "f", " ", ".", "C", "a", "t", "e", "g", "o",
      "r", "y", " ", "=", "=", " ", "\"", "H", "i", "s", "t", "o", "r",
      "y", "\"", "]", "]", "F", "o", "c", "u", "s", ":", " ", "d", "a",
      "t", "e", "s", " ", "a", "n", "d", " ", "c", "a", "u", "s", "e", "s",
      ".", "[", "[", "e", "l", "s", "e", " ", "i", "f", " ", ".", "C", "a",
      "t", "e", "g", "o", "r", "y", " ", "=", "=", " ", "\"", "S", "c",
      "i", "e", "n", "c", "e", "\"", "]", "]", "F", "o", "c", "u", "s",
      ":", " ", "e", "v", "i", "d", "e", "n", "c", "e", " ", "a", "n", "d",
      " ", "m", "e", "t", "h", "o", "d", ".", "[", "[", "e", "l", "s", "e",
      "]", "]", "F", "o", "c", "u", "s", ":", " ", "g", "e", "n", "e", "r",
      "a", "l", " ", "o", "v", "e", "r", "v", "i", "e", "w", ".", "[", "[",
      "e", "n", "d", "]", "]">>

History == <<"H", "i", "s", "t", "o", "r", "y">>
Science == <<"S", "c", "i", "e", "n", "c", "e">>
Lasers == <<"L", "a", "s", "e", "r", "s">>

BlockTemplates == {BlockTemplate(b) : b \in Blocks} \cup {ScenarioTemplate}

BlockBindings ==
    {<<>>, <<Item(Category, <<"A">>)>>, <<Item(Category, <<"B">>)>>,
     <<Item(Category, <<"Z">>)>>, <<Item(Category, <<>>)>>,
     <<Item(Category, Science), Item(Topic, Lasers)>>,
     <<Item(Topic, Lasers)>>}

----------------------------------------------------------------------------
(* Templates put together from placeholders and from marker fragments *)

MaxParts == 2
MaxFragments == 3

User == <<"U", "s", "e", "r">>

\* all concatenations of at most n of the given pieces
RECURSIVE Concats(_, _)
Concats(pieces, n) ==
    IF n = 0 THEN {<<>>}
    ELSE LET shorter == Concats(pieces, n - 1)
         IN  shorter \cup {t \o p : t \in shorter, p \in pieces}

SubstPieces ==
    {PlaceholderPattern(Now), PlaceholderPattern(Category),
     PlaceholderPattern(Topic), PlaceholderPattern(User),
     <<"x">>, <<"[", "[", ".">>, <<"[", ".">>}

SubstTemplates == Concats(SubstPieces, MaxParts)

Chained == PlaceholderPattern(Category)

SubstBindings ==
    Dicts({Item(Now, <<"v">>), Item(Now, Chained), Item(Now, <<"[">>),
           Item(Category, <<"A">>), Item(Topic, <<"T">>)})

Fragments ==
    {IfOpen, ElseOpen, EndMarker, Close, <<"[", "[">>, <<NL>>, <<"x">>}

MarkerTemplates == Concats(Fragments, MaxFragments)

MarkerBindings == {<<>>, <<Item(Category, <<"A">>)>>}

\* what a caller of several process calls compiles
CallPieces ==
    {PlaceholderPattern(Now), PlaceholderPattern(Category),
     PlaceholderPattern(Topic),
     IfHead \o <<"A">> \o QuoteClose \o IfBody \o ElseMarker \o ElseBody \o EndMarker,
     CommentMarker \o <<"c", NL>>}

CallTemplates == {a \o b : a, b \in CallPieces}

CallBindings == Dicts({Item(Now, Chained), Item(Category, <<"A">>)})

\* templates of stray markers, a block head, a comment marker and the
\* placeholder of a key that no bindings hold
MaxStray == 3

BlockHead == IfHead \o <<"A">> \o QuoteClose

StrayPieces ==
    {PlaceholderPattern(User), BlockHead, IfOpen, ElseOpen, EndMarker, Close,
     <<"[", "[", "e">>, <<"n", "d", "]", "]">>, CommentMarker, <<NL>>, <<"x">>}

StrayTemplates == Concats(StrayPieces, MaxStray)

StrayBindings == {<<>>, <<Item(Category, <<"A">>)>>}

\* templates and bindings with integer values, the selector among them
TypedPieces ==
    {PlaceholderPattern(Now), PlaceholderPattern(Category), <<"x">>,
     IfHead \o <<"7">> \o QuoteClose \o <<"a">> \o ElseMarker \o <<"b">> \o EndMarker}

TypedTemplates == Concats(TypedPieces, MaxParts)

TypedBindings ==
    Dicts({NumItem(Category, 7), Item(Category, <<"7">>),
           NumItem(Now, 12), NumItem(Now, -3)})

\* placeholders whose keys differ in case or in one character, bound values
\* with backslashes, and a key with a "."
LowerNow == <<"n", "o", "w">>
OtherNow == <<"N", "x", "w">>
DotKey == <<"N", ".", "w">>

LiteralPieces ==
    {PlaceholderPattern(Now), PlaceholderPattern(LowerNow),
     PlaceholderPattern(OtherNow), <<"x">>}

LiteralTemplates == Concats(LiteralPieces, MaxParts)

ValueChars == {"v", Backslash, "n", "1"}

LiteralValues == Concats({<<c>> : c \in ValueChars}, MaxParts)

LiteralBindings ==
    {<<Item(Now, v)>> : v \in LiteralValues} \cup {<<Item(DotKey, <<"v">>)>>}

\* templates with two blocks, one after the other
Middle == <<"m">>

PairBlocks == {b \in Blocks : Len(b.elifs) <= 1}

PairTemplate(b1, b2) ==
    Before \o BlockText(b1) \o Middle \o BlockText(b2) \o After

PairTemplates == {PairTemplate(b1, b2) : b1, b2 \in PairBlocks}

PairBindings ==
    {<<>>, <<Item(Category, <<"A">>)>>, <<Item(Category, <<"B">>)>>}

\* templates with one run of newlines between two pieces of text
MaxNewlines == 5

RECURSIVE Newlines(_)
Newlines(k) == IF k = 0 THEN <<>> ELSE <<NL>> \o Newlines(k - 1)

Lefts == {<<"a">>, <<"a">> \o EndMarker, EndMarker, <<"a", " ">>, <<" ">>}
Rights == {<<"b">>, EndMarker \o <<"b">>, EndMarker, <<" ", "b">>, <<" ">>}

Spaced(l, k, r) == l \o Newlines(k) \o r

BlankTemplates == {Spaced(l, k, r) : l \in Lefts, k \in 0..MaxNewlines, r \in Rights}

BlankBindings == {<<>>, <<Item(Category, <<"A">>)>>}

\* templates of comment markers, blanks, newlines and text, with an [[end]]
\* and a placeholder that can stand before a comment marker
MaxLineParts == 4

LinePieces ==
    {CommentMarker, <<" ">>, <<NL>>, <<"x">>, EndMarker, PlaceholderPattern(Now)}

LineTemplates == Concats(LinePieces, MaxLineParts)

LineBindings == {<<>>, <<Item(Now, CommentMarker)>>}

\* templates whose block bodies hold placeholders, between edges that hold a
\* comment line or blank lines, so that each of the four steps has work to do
CommentLine == CommentMarker \o <<"c", NL>>

StageEdges == {<<>>, CommentLine, <<"x", NL, NL, NL>>}

StageBodies ==
    {<<"p">>, PlaceholderPattern(Now), <<"p">> \o PlaceholderPattern(Now) \o <<NL>>,
     PlaceholderPattern(Topic)}

StageTemplates ==
    {pre \o BlockHead \o b1 \o ElseMarker \o b2 \o EndMarker \o post :
        pre \in StageEdges, post \in StageEdges, b1 \in StageBodies, b2 \in StageBodies}

StageBindings ==
    {<<>>, <<Item(Now, <<"v">>)>>,
     <<Item(Category, <<"A">>), Item(Now, <<"v">>), Item(Topic, <<"T">>)>>,
     <<Item(Now, <<"v">>), Item(Category, <<"B">>)>>,
     <<Item(Category, <<"A">>), Item(Now, <<Backslash, "1">>)>>,
     <<NumItem(Category, 7), Item(Now, <<"v">>)>>}

\* templates of text, whitespace, comment lines and markers: the pieces other
\* than the text are what a template "reduces to" when it compiles to nothing
MaxTrimParts == 4

OwnCommentLine == <<NL>> \o CommentLine

QuietPieces ==
    {<<" ">>, <<NL>>, <<NL, NL>>, EndMarker \o <<NL>>, ElseMarker, OwnCommentLine,
     BlockHead}

TrimPieces == QuietPieces \cup {<<"x">>}

TrimTemplates == Concats(TrimPieces, MaxTrimParts)

QuietTemplates == Concats(QuietPieces, MaxTrimParts)

TrimBindings == {<<>>, <<Item(Category, <<"A">>)>>}

\* templates of [[.Topic]] placeholders among blocks, stray markers and comment
\* markers, compiled with Topic bound
ExemptPieces ==
    {PlaceholderPattern(Topic), BlockHead, ElseMarker, ElseOpen, IfOpen, EndMarker,
     CommentMarker, <<NL>>, <<"x">>}

ExemptTemplates == Concats(ExemptPieces, MaxStray)

ExemptBindings ==
    {<<>>, <<Item(Topic, <<"T">>)>>,
     <<Item(Category, <<"A">>), Item(Topic, <<"T">>)>>,
     <<Item(Topic, <<"T">>), Item(Category, <<"B">>)>>}

\* a block with a [[.Now]] placeholder in or before it, compiled several times
\* with the same selector and values of Now that hold text or marker syntax
InjectBlock(b1, b2) == BlockHead \o b1 \o ElseMarker \o b2 \o EndMarker

InjectTemplates ==
    {InjectBlock(<<"p">> \o PlaceholderPattern(Now), <<"z">>),
     InjectBlock(<<"p">>, <<"z">> \o PlaceholderPattern(Now)),
     PlaceholderPattern(Now) \o InjectBlock(<<"p">>, <<"z">>),
     InjectBlock(<<"p">>, <<"z">>) \o PlaceholderPattern(Now)}

InjectValues ==
    {<<"v">>, <<"w">>, EndMarker, ElseMarker, IfHead \o <<"B">> \o QuoteClose}

InjectBindings ==
    {<<Item(Category, c), Item(Now, v)>> : c \in {<<"A">>, <<"B">>}, v \in InjectValues}

----------------------------------------------------------------------------
(* interpret_safety_result of src/python/06_image_safety_check.py *)

UpperLetters ==
    <<"A", "B", "C", "D", "E", "F", "G", "H", "I", "J", "K", "L", "M", "N", "O",
      "P", "Q", "R", "S", "T", "U", "V", "W", "X", "Y", "Z">>

LowerLetters ==
    <<"a", "b", "c", "d", "e", "f", "g", "h", "i", "j", "k", "l", "m", "n", "o",
      "p", "q", "r", "s", "t", "u", "v", "w", "x", "y", "z">>

\* str.lower(), on the characters a content of the model holds
lower(s) ==
    [i \in 1..Len(s) |->
        IF \E n \in 1..Len(UpperLetters) : UpperLetters[n] = s[i]
        THEN LowerLetters[CHOOSE n \in 1..Len(UpperLetters) : UpperLetters[n] = s[i]]
        ELSE s[i]]

\* str.startswith
startswith(s, p) == StartsAt(s, 1, p)

\* bool(value) of a value of the model
truthy(value) ==
    CASE value.type = "NoneType" -> FALSE
      [] value.type = "int" -> value.val # 0
      [] OTHER -> value.val # <<>>

Safe == <<"s", "a", "f", "e">>
Unsafe == <<"u", "n">> \o Safe
ErrorCategory == <<"e", "r", "r", "o", "r">>

NoResponseExplanation ==
    <<"N", "o", " ", "r", "e", "s", "p", "o", "n", "s", "e", " ", "f", "r",
      "o", "m", " ", "s", "a", "f", "e", "t", "y", " ", "c", "h", "e", "c",
      "k">>

PassedExplanation ==
    <<"I", "m", "a", "g", "e", " ", "p", "a", "s", "s", "e", "d", " ", "s",
      "a", "f", "e", "t", "y", " ", "c", "h", "e", "c", "k", "s">>

\* lines 136-145: the dict categories, its items in insertion order
categories ==
    <<
      [key |->
           <<"v", "i", "o", "l", "e", "n", "c", "e">>,
       description |->
           <<"V", "i", "o", "l", "e", "n", "c", "e", " ", "o", "r", " ", "g",
             "r", "a", "p", "h", "i", "c", " ", "c", "o", "n", "t", "e", "n",
             "t">>],
      [key |->
           <<"s", "e", "x", "u", "a", "l">>,
       description |->
           <<"S", "e", "x", "u", "a", "l", " ", "o", "r", " ", "s", "u", "g",
             "g", "e", "s", "t", "i", "v", "e", " ", "c", "o", "n", "t", "e",
             "n", "t">>],
      [key |->
           <<"h", "a", "t", "e">>,
       description |->
           <<"H", "a", "t", "e", " ", "s", "p", "e", "e", "c", "h", " ", "o",
             "r", " ", "d", "i", "s", "c", "r", "i", "m", "i", "n", "a", "t",
             "o", "r", "y", " ", "c", "o", "n", "t", "e", "n", "t">>],
      [key |->
           <<"s", "e", "l", "f", "-", "h", "a", "r", "m">>,
       description |->
           <<"S", "e", "l", "f", "-", "h", "a", "r", "m", " ", "o", "r", " ",
             "s", "u", "i", "c", "i", "d", "e", " ", "c", "o", "n", "t", "e",
             "n", "t">>],
      [key |->
           <<"i", "l", "l", "e", "g", "a", "l">>,
       description |->
           <<"I", "l", "l", "e", "g", "a", "l", " ", "o", "r", " ", "d", "a",
             "n", "g", "e", "r", "o", "u", "s", " ", "a", "c", "t", "i", "v",
             "i", "t", "i", "e", "s">>],
      [key |->
           <<"d", "e", "c", "e", "p", "t", "i", "o", "n">>,
       description |->
           <<"D", "e", "c", "e", "p", "t", "i", "v", "e", " ", "o", "r", " ",
             "m", "i", "s", "l", "e", "a", "d", "i", "n", "g", " ", "c", "o",
             "n", "t", "e", "n", "t">>],
      [key |->
           <<"p", "r", "i", "v", "a", "c", "y">>,
       description |->
           <<"P", "r", "i", "v", "a", "c", "y", " ", "v", "i", "o", "l", "a",
             "t", "i", "o", "n">>],
      [key |->
           <<"c", "h", "i", "l", "d", "r", "e", "n">>,
       description |->
           <<"C", "h", "i", "l", "d", " ", "s", "a", "f", "e", "t", "y", " ",
             "c", "o", "n", "c", "e", "r", "n">>]
    >>

\* what a call that returns (is_safe, category, explanation) leaves behind
Verdict(is_safe, category, explanation) ==
    [raised |-> "", is_safe |-> is_safe, category |-> category,
     explanation |-> explanation]

\* what a call that an exception leaves leaves behind
Failed(exception) ==
    [raised |-> exception, is_safe |-> FALSE, category |-> <<>>, explanation |-> <<>>]

\* lines 148-153: the loop over categories.items() from the n-th item on,
\* and the generic answer after it
RECURSIVE FlaggedFrom(_, _)
FlaggedFrom(content, n) ==
    IF n > Len(categories) THEN Verdict(FALSE, Unsafe, content)
    ELSE IF Contains(content, categories[n].key)
         THEN Verdict(FALSE, categories[n].key, categories[n].description)
         ELSE FlaggedFrom(content, n + 1)

\* line 129: result['choices'][0]['message']['content'], or the exception of
\* the subscript that fails
Content(res) ==
    Let(res.val["choices"].val[1], LAMBDA choice :
        IF choice.type # "dict" THEN [raised |-> "TypeError", value |-> None]
        ELSE IF "message" \notin DOMAIN choice.val
        THEN [raised |-> "KeyError", value |-> None]
        ELSE Let(choice.val["message"], LAMBDA message :
            IF message.type # "dict" THEN [raised |-> "TypeError", value |-> None]
            ELSE IF "content" \notin DOMAIN message.val
            THEN [raised |-> "KeyError", value |-> None]
            ELSE [raised |-> "", value |-> message.val["content"]]))

\* interpret_safety_result accepting any content that holds "safe"
interpret_safety_result_Holds(res) ==
    IF "choices" \notin DOMAIN res.val \/ ~truthy(res.val["choices"])
    THEN Verdict(FALSE, ErrorCategory, NoResponseExplanation)
    ELSE Let(Content(res), LAMBDA got :
         IF got.raised # "" THEN Failed(got.raised)
         ELSE IF got.value.type # "str" THEN Failed("AttributeError")
         ELSE Let(lower(got.value.val), LAMBDA content :
              IF Contains(content, Safe)
              THEN Verdict(TRUE, Safe, PassedExplanation)
              ELSE FlaggedFrom(content, 1)))

\* lines 116-157
interpret_safety_result(res) ==
    IF "choices" \notin DOMAIN res.val \/ ~truthy(res.val["choices"])
    THEN Verdict(FALSE, ErrorCategory, NoResponseExplanation)
    ELSE Let(Content(res), LAMBDA got :
         IF got.raised # "" THEN Failed(got.raised)
         ELSE IF got.value.type # "str" THEN Failed("AttributeError")
         ELSE Let(lower(got.value.val), LAMBDA content :
              IF startswith(content, Safe)
              THEN Verdict(TRUE, Safe, PassedExplanation)
              ELSE FlaggedFrom(content, 1)))

\* the contents a safety model can answer with: up to MaxWords of these words
MaxWords == 3

SafetyWords ==
    {Safe, <<"S", "a", "f", "e">>, <<"u", "n">>, <<" ">>, <<NL, "S", "1">>}
        \cup {categories[n].key : n \in 1..Len(categories)}

SafetyContents == Concats(SafetyWords, MaxWords)

Choice(content) == Dict("message" :> Dict("content" :> content))

\* the responses: without choices, with choices that are None or empty, with
\* a first choice whose content is None, and with one or two choices whose
\* contents are strings
SafetyResults ==
    {Dict(<<>>), Dict("choices" :> None), Dict("choices" :> List(<<>>)),
     Dict("choices" :> List(<<Choice(None)>>)),
     Dict("choices" :> List(<<Dict(<<>>)>>))}
        \cup {Dict("choices" :> List(<<Choice(Str(c))>>)) : c \in SafetyContents}
        \cup {Dict("choices" :> List(<<Choice(Str(c)), Choice(Str(Safe))>>)) :
                 c \in {Unsafe, categories[3].key}}

----------------------------------------------------------------------------
(* The processor *)

MaxCalls == 3

\* TEMPLATE_FILE, line 46
TEMPLATE_FILE == "../templates/essay_writer.txt"

\* a connection that has not been created
NoConnection == [opened |-> 0, closed |-> 0]

\* no API call has ended
\* no API call has ended
NoResponse == [raised |-> "", body |-> None, result |-> None]

\* interpret_safety_result has not been called
NoVerdict == [raised |-> "", is_safe |-> FALSE, category |-> <<>>, explanation |-> <<>>]

\* no script runs: the processor is exercised by a caller of its own
NoScript ==
    /\ pc = ""
    /\ environ = <<>>
    /\ argv = <<>>
    /\ exit_status = ""
    /\ trace = <<>>
    /\ conn = NoConnection
    /\ response = NoResponse
    /\ tool_calls = None
    /\ tool_messages = <<>>
    /\ result = None
    /\ verdict = NoVerdict

\* a processor constructed from TEMPLATE_FILE holding one of the templates
Fresh(templates) ==
    /\ NoScript
    /\ template_content \in templates
    /\ files = [path \in {TEMPLATE_FILE} |-> template_content]
    /\ template_path = TEMPLATE_FILE
    /\ constructed = TRUE
    /\ given = <<>>
    /\ variables = <<>>
    /\ after_comments = <<>>
    /\ after_subst = <<>>
    /\ after_cond = <<>>
    /\ output = <<>>
    /\ raised = ""
    /\ calls = 0
    /\ first_given = <<>>
    /\ first_output = <<>>
    /\ between = FALSE

\* the paths a processor is constructed from and the texts their files hold
OTHER_FILE == "../templates/missing.txt"
Paths == {TEMPLATE_FILE, OTHER_FILE}

LoadTexts ==
    {<<"x">>, PlaceholderPattern(Now), BlockHead \o <<"a">> \o EndMarker,
     CommentMarker \o <<"c", NL, "x">>}

FileSystems == UNION {[ps -> LoadTexts] : ps \in SUBSET Paths}

LoadBindings == {<<>>, <<Item(Category, <<"A">>)>>, <<Item(Now, <<"v">>)>>}

\* no processor has been constructed and none of its methods has been called
NoProcessor ==
    /\ template_path = ""
    /\ constructed = FALSE
    /\ template_content = <<>>
    /\ given = <<>>
    /\ variables = <<>>
    /\ after_comments = <<>>
    /\ after_subst = <<>>
    /\ after_cond = <<>>
    /\ output = <<>>
    /\ raised = ""
    /\ calls = 0
    /\ first_given = <<>>
    /\ first_output = <<>>
    /\ between = FALSE

\* no processor yet, over one of the file systems
Unconstructed ==
    /\ NoScript
    /\ files \in FileSystems
    /\ template_path = ""
    /\ constructed = FALSE
    /\ template_content = <<>>
    /\ given = <<>>
    /\ variables = <<>>
    /\ after_comments = <<>>
    /\ after_subst = <<>>
    /\ after_cond = <<>>
    /\ output = <<>>
    /\ raised = ""
    /\ calls = 0
    /\ first_given = <<>>
    /\ first_output = <<>>
    /\ between = FALSE

\* a missing file read as an empty template
_load_template_Empty(fs, path) ==
    IF path \in DOMAIN fs
    THEN [content |-> fs[path], raised |-> ""]
    ELSE [content |-> <<>>, raised |-> ""]

\* lines 129-131: the text of the file, or FileNotFoundError
_load_template(fs, path) ==
    IF path \in DOMAIN fs
    THEN [content |-> fs[path], raised |-> ""]
    ELSE [content |-> <<>>, raised |-> "FileNotFoundError"]

\* what TemplateProcessor(path) leaves behind when _load_template ended as r:
\* an exception leaves __init__, and the caller gets no object
Loaded(path, r) ==
    /\ template_path' = path
    /\ constructed' = (r.raised = "")
    /\ template_content' = IF r.raised = "" THEN r.content ELSE template_content
    /\ raised' = r.raised
    /\ UNCHANGED <<files, given, variables, after_comments, after_subst,
                   after_cond, output, calls, first_given, first_output, between>>

\* TemplateProcessor(path), lines 117-118, by a caller that has no processor
New(path) ==
    /\ ~constructed
    /\ Loaded(path, _load_template(files, path))
    /\ UNCHANGED scriptVars

\* what a call that was handed vs and ended as r leaves behind
Ended(vs, r) ==
    /\ given' = vs
    /\ template_content' = r.template_content
    /\ variables' = r.variables
    /\ after_comments' = r.after_comments
    /\ after_subst' = r.after_subst
    /\ after_cond' = r.after_cond
    /\ output' = r.output
    /\ raised' = r.raised
    /\ calls' = calls + 1
    /\ UNCHANGED <<files, template_path, constructed>>

\* processor.process(vs), on a processor that was constructed
Call(vs) == constructed /\ Ended(vs, process(template_content, vs))

\* main, lines 386-405: the one process call of a run of the script
Compile(vs) ==
    /\ calls = 0
    /\ Call(vs)
    /\ UNCHANGED <<first_given, first_output, between>>
    /\ UNCHANGED scriptVars

\* one of several process calls a caller makes on the same processor,
\* keeping its log
Process(vs) ==
    /\ calls < MaxCalls
    /\ Call(vs)
    /\ first_given' = IF calls = 0 THEN vs ELSE first_given
    /\ first_output' = IF calls = 0 THEN output' ELSE first_output
    /\ between' = (between \/ (calls > 0 /\ vs # first_given))
    /\ UNCHANGED scriptVars

Init == Fresh(BlockTemplates)
Next == \E vs \in BlockBindings : Compile(vs)
Spec == Init /\ [][Next]_vars

InitSubst == Fresh(SubstTemplates)
NextSubst == \E vs \in SubstBindings : Compile(vs)
SpecSubst == InitSubst /\ [][NextSubst]_vars

InitMarkers == Fresh(MarkerTemplates)
NextMarkers == \E vs \in MarkerBindings : Compile(vs)
SpecMarkers == InitMarkers /\ [][NextMarkers]_vars

InitCalls == Fresh(CallTemplates)
NextCalls == \E vs \in CallBindings : Process(vs)
SpecCalls == InitCalls /\ [][NextCalls]_vars

InitLines == Fresh(LineTemplates)
NextLines == \E vs \in LineBindings : Compile(vs)
SpecLines == InitLines /\ [][NextLines]_vars

InitTyped == Fresh(TypedTemplates)
NextTyped == \E vs \in TypedBindings : Compile(vs)
SpecTyped == InitTyped /\ [][NextTyped]_vars

InitBlank == Fresh(BlankTemplates)
NextBlank == \E vs \in BlankBindings : Compile(vs)
SpecBlank == InitBlank /\ [][NextBlank]_vars

InitLoad == Unconstructed
NextLoad ==
    \/ \E path \in Paths : New(path)
    \/ \E vs \in LoadBindings : Compile(vs)
SpecLoad == InitLoad /\ [][NextLoad]_vars

InitPairs == Fresh(PairTemplates)
NextPairs == \E vs \in PairBindings : Compile(vs)
SpecPairs == InitPairs /\ [][NextPairs]_vars

InitLiteral == Fresh(LiteralTemplates)
NextLiteral == \E vs \in LiteralBindings : Compile(vs)
SpecLiteral == InitLiteral /\ [][NextLiteral]_vars

InitStray == Fresh(StrayTemplates)
NextStray == \E vs \in StrayBindings : Compile(vs)
SpecStray == InitStray /\ [][NextStray]_vars

InitStages == Fresh(StageTemplates)
NextStages == \E vs \in StageBindings : Compile(vs)
SpecStages == InitStages /\ [][NextStages]_vars

InitTrim == Fresh(TrimTemplates)
NextTrim == \E vs \in TrimBindings : Compile(vs)
SpecTrim == InitTrim /\ [][NextTrim]_vars

InitTopic == Fresh(ExemptTemplates)
NextTopic == \E vs \in ExemptBindings : Compile(vs)
SpecTopic == InitTopic /\ [][NextTopic]_vars

InitInject == Fresh(InjectTemplates)
NextInject == \E vs \in InjectBindings : Process(vs)
SpecInject == InitInject /\ [][NextInject]_vars

\* 06_image_safety_check: a caller that holds a response and interprets it
InitSafety ==
    /\ NoProcessor
    /\ files = <<>>
    /\ pc = "interpret"
    /\ environ = <<>>
    /\ argv = <<>>
    /\ exit_status = ""
    /\ trace = <<>>
    /\ conn = NoConnection
    /\ response = NoResponse
    /\ tool_calls = None
    /\ tool_messages = <<>>
    /\ result \in SafetyResults
    /\ verdict = NoVerdict

\* is_safe, category, explanation = interpret_safety_result(result)
Interpret ==
    /\ pc = "interpret"
    /\ verdict' = interpret_safety_result(result)
    /\ pc' = "interpreted"
    /\ UNCHANGED <<processorVars, environ, argv, exit_status, trace, conn, response,
                   tool_calls, tool_messages, result>>

NextSafety == Interpret
SpecSafety == InitSafety /\ [][NextSafety]_vars

----------------------------------------------------------------------------
(* main and make_api_request of src/python/03_prompt_template.py *)

\* lines 56-103: the text create_example_template writes; a character outside
\* ASCII is written as its code point
ExampleTemplate ==
    <<"/", "/", "/", " ", "T", "e", "m", "p", "l", "a", "t", "e", " ", "f",
      "o", "r", " ", "w", "r", "i", "t", "i", "n", "g", " ", "e", "d", "u",
      "c", "a", "t", "i", "o", "n", "a", "l", " ", "e", "s", "s", "a", "y",
      "s", NL, "/", "/", "/", " ", "V", "a", "r", "i", "a", "b", "l", "e",
      "s", ":", " ", "[", "[", ".", "N", "o", "w", "]", "]", " ", "=", " ",
      "c", "u", "r", "r", "e", "n", "t", " ", "t", "i", "m", "e", "s", "t",
      "a", "m", "p", ",", " ", "[", "[", ".", "C", "a", "t", "e", "g", "o",
      "r", "y", "]", "]", " ", "=", " ", "e", "s", "s", "a", "y", " ", "c",
      "a", "t", "e", "g", "o", "r", "y", ",", " ", "[", "[", ".", "T", "o",
      "p", "i", "c", "]", "]", " ", "=", " ", "e", "s", "s", "a", "y", " ",
      "t", "o", "p", "i", "c", NL, "/", "/", "/", " ", "C", "o", "m", "m",
      "e", "n", "t", "s", " ", "s", "t", "a", "r", "t", "i", "n", "g", " ",
      "w", "i", "t", "h", " ", "/", "/", "/", " ", "a", "r", "e", " ", "r",
      "e", "m", "o", "v", "e", "d", " ", "d", "u", "r", "i", "n", "g", " ",
      "c", "o", "m", "p", "i", "l", "a", "t", "i", "o", "n", NL, NL, "#", " ",
      "U+1F3AF", " ", "O", "B", "J", "E", "C", "T", "I", "V", "E", NL, NL,
      "W", "r", "i", "t", "e", " ", "a", "n", " ", "e", "n", "g", "a", "g",
      "i", "n", "g", ",", " ", "e", "d", "u", "c", "a", "t", "i", "o", "n",
      "a", "l", " ", "e", "s", "s", "a", "y", " ", "a", "b", "o", "u", "t",
      " ", "[", "[", ".", "T", "o", "p", "i", "c", "]", "]", " ", "i", "n",
      " ", "t", "h", "e", " ", "[", "[", ".", "C", "a", "t", "e", "g", "o",
      "r", "y", "]", "]", " ", "c", "a", "t", "e", "g", "o", "r", "y", ".",
      NL, "T", "h", "e", " ", "e", "s", "s", "a", "y", " ", "s", "h", "o",
      "u", "l", "d", " ", "b", "e", " ", "a", "p", "p", "r", "o", "p", "r",
      "i", "a", "t", "e", " ", "f", "o", "r", " ", "s", "t", "u", "d", "e",
      "n", "t", "s", " ", "a", "g", "e", "d", " ", "1", "4", "-", "1", "8",
      ",", " ", "i", "n", "f", "o", "r", "m", "a", "t", "i", "v", "e", " ",
      "y", "e", "t", " ", "a", "c", "c", "e", "s", "s", "i", "b", "l", "e",
      ".", NL, "C", "u", "r", "r", "e", "n", "t", " ", "t", "i", "m", "e",
      "s", "t", "a", "m", "p", ":", " ", "[", "[", ".", "N", "o", "w", "]",
      "]", NL, NL, "#", " ", "U+1F4DD", " ", "E", "S", "S", "A", "Y", " ",
      "R", "E", "Q", "U", "I", "R", "E", "M", "E", "N", "T", "S", NL, NL, "*",
      " ", "*", "*", "L", "e", "n", "g", "t", "h", ":", "*", "*", " ", "5",
      "0", "0", "-", "7", "5", "0", " ", "w", "o", "r", "d", "s", " ", "(",
      "a", "p", "p", "r", "o", "x", "i", "m", "a", "t", "e", "l", "y", " ",
      "5", "-", "7", " ", "p", "a", "r", "a", "g", "r", "a", "p", "h", "s",
      ")", NL, "*", " ", "*", "*", "S", "t", "r", "u", "c", "t", "u", "r",
      "e", ":", "*", "*", " ", "I", "n", "t", "r", "o", "d", "u", "c", "t",
      "i", "o", "n", ",", " ", "3", "-", "4", " ", "b", "o", "d", "y", " ",
      "p", "a", "r", "a", "g", "r", "a", "p", "h", "s", ",", " ", "c", "o",
      "n", "c", "l", "u", "s", "i", "o", "n", NL, "*", " ", "*", "*", "T",
      "o", "n", "e", ":", "*", "*", " ", "E", "d", "u", "c", "a", "t", "i",
      "o", "n", "a", "l", ",", " ", "e", "n", "g", "a", "g", "i", "n", "g",
      ",", " ", "a", "g", "e", "-", "a", "p", "p", "r", "o", "p", "r", "i",
      "a", "t", "e", NL, "*", " ", "*", "*", "C", "i", "t", "a", "t", "i",
      "o", "n", "s", ":", "*", "*", " ", "I", "n", "c", "l", "u", "d", "e",
      " ", "a", "t", " ", "l", "e", "a", "s", "t", " ", "3", " ", "f", "a",
      "c", "t", "u", "a", "l", " ", "r", "e", "f", "e", "r", "e", "n", "c",
      "e", "s", NL, NL, "#", " ", "U+1F4DA", " ", "C", "A", "T", "E", "G",
      "O", "R", "Y", ":", " ", "[", "[", ".", "C", "a", "t", "e", "g", "o",
      "r", "y", "]", "]", NL, NL, "[", "[", "i", "f", " ", ".", "C", "a", "t",
      "e", "g", "o", "r", "y", " ", "=", "=", " ", "\"", "H", "i", "s", "t",
      "o", "r", "y", "\"", "]", "]", NL, "F", "o", "c", "u", "s", " ", "o",
      "n", ":", NL, "-", " ", "C", "a", "u", "s", "e", " ", "a", "n", "d",
      " ", "e", "f", "f", "e", "c", "t", " ", "r", "e", "l", "a", "t", "i",
      "o", "n", "s", "h", "i", "p", "s", NL, "-", " ", "S", "p", "e", "c",
      "i", "f", "i", "c", " ", "d", "a", "t", "e", "s", " ", "a", "n", "d",
      " ", "k", "e", "y", " ", "f", "i", "g", "u", "r", "e", "s", NL, "-",
      " ", "H", "i", "s", "t", "o", "r", "i", "c", "a", "l", " ", "s", "i",
      "g", "n", "i", "f", "i", "c", "a", "n", "c", "e", " ", "a", "n", "d",
      " ", "m", "o", "d", "e", "r", "n", " ", "r", "e", "l", "e", "v", "a",
      "n", "c", "e", NL, "[", "[", "e", "l", "s", "e", " ", "i", "f", " ",
      ".", "C", "a", "t", "e", "g", "o", "r", "y", " ", "=", "=", " ", "\"",
      "S", "c", "i", "e", "n", "c", "e", "\"", "]", "]", NL, "F", "o", "c",
      "u", "s", " ", "o", "n", ":", NL, "-", " ", "F", "u", "n", "d", "a",
      "m", "e", "n", "t", "a", "l", " ", "c", "o", "n", "c", "e", "p", "t",
      "s", " ", "e", "x", "p", "l", "a", "i", "n", "e", "d", " ", "s", "i",
      "m", "p", "l", "y", NL, "-", " ", "R", "e", "a", "l", "-", "w", "o",
      "r", "l", "d", " ", "a", "p", "p", "l", "i", "c", "a", "t", "i", "o",
      "n", "s", NL, "-", " ", "S", "c", "i", "e", "n", "t", "i", "f", "i",
      "c", " ", "m", "e", "t", "h", "o", "d", " ", "a", "n", "d", " ", "e",
      "v", "i", "d", "e", "n", "c", "e", NL, "[", "[", "e", "l", "s", "e",
      " ", "i", "f", " ", ".", "C", "a", "t", "e", "g", "o", "r", "y", " ",
      "=", "=", " ", "\"", "T", "e", "c", "h", "n", "o", "l", "o", "g", "y",
      "\"", "]", "]", NL, "F", "o", "c", "u", "s", " ", "o", "n", ":", NL,
      "-", " ", "T", "e", "c", "h", "n", "i", "c", "a", "l", " ", "c", "o",
      "n", "c", "e", "p", "t", "s", " ", "i", "n", " ", "s", "i", "m", "p",
      "l", "e", " ", "t", "e", "r", "m", "s", NL, "-", " ", "B", "e", "n",
      "e", "f", "i", "t", "s", " ", "a", "n", "d", " ", "c", "h", "a", "l",
      "l", "e", "n", "g", "e", "s", NL, "-", " ", "F", "u", "t", "u", "r",
      "e", " ", "i", "m", "p", "l", "i", "c", "a", "t", "i", "o", "n", "s",
      NL, "[", "[", "e", "l", "s", "e", "]", "]", NL, "F", "o", "c", "u", "s",
      " ", "o", "n", ":", NL, "-", " ", "C", "o", "m", "p", "r", "e", "h",
      "e", "n", "s", "i", "v", "e", " ", "o", "v", "e", "r", "v", "i", "e",
      "w", NL, "-", " ", "R", "e", "l", "e", "v", "a", "n", "t", " ", "e",
      "x", "a", "m", "p", "l", "e", "s", NL, "-", " ", "B", "a", "l", "a",
      "n", "c", "e", "d", " ", "p", "e", "r", "s", "p", "e", "c", "t", "i",
      "v", "e", NL, "[", "[", "e", "n", "d", "]", "]", NL, NL, "#", " ", "O",
      "U", "T", "P", "U", "T", " ", "F", "O", "R", "M", "A", "T", NL, NL, "P",
      "r", "o", "v", "i", "d", "e", " ", "t", "h", "e", " ", "e", "s", "s",
      "a", "y", " ", "w", "i", "t", "h", ":", NL, "-", " ", "C", "l", "e",
      "a", "r", ",", " ", "d", "e", "s", "c", "r", "i", "p", "t", "i", "v",
      "e", " ", "t", "i", "t", "l", "e", NL, "-", " ", "W", "e", "l", "l",
      "-", "s", "t", "r", "u", "c", "t", "u", "r", "e", "d", " ", "p", "a",
      "r", "a", "g", "r", "a", "p", "h", "s", NL, "-", " ", "K", "e", "y",
      " ", "t", "e", "r", "m", "s", " ", "d", "e", "f", "i", "n", "e", "d",
      NL, "-", " ", "2", "-", "3", " ", "d", "i", "s", "c", "u", "s", "s",
      "i", "o", "n", " ", "q", "u", "e", "s", "t", "i", "o", "n", "s", " ",
      "a", "t", " ", "t", "h", "e", " ", "e", "n", "d">>

ClimateChange ==
    <<"C", "l", "i", "m", "a", "t", "e", " ", "C", "h", "a", "n", "g", "e">>

\* line 382: a value of datetime.now(timezone.utc).strftime(...)
Timestamp ==
    <<"2", "0", "2", "6", "-", "1", "1", "-", "0", "4", " ", "1", "2", ":",
      "0", "0", ":", "0", "0", " ", "U", "T", "C">>

\* line 416
UserMessage(topic) ==
    <<"P", "l", "e", "a", "s", "e", " ", "w", "r", "i", "t", "e", " ", "t",
      "h", "e", " ", "e", "s", "s", "a", "y", " ", "a", "b", "o", "u", "t",
      " ">>
    \o topic \o
    <<" ", "a", "s", " ", "s", "p", "e", "c", "i", "f", "i", "e", "d", " ",
      "i", "n", " ", "t", "h", "e", " ", "i", "n", "s", "t", "r", "u", "c",
      "t", "i", "o", "n", "s", ".">>

\* one thing the script did to the outside
Event(op, detail) == [op |-> op, detail |-> detail]

\* lines 359-360
category_of(args) == IF Len(args) > 0 THEN args[1] ELSE Science
topic_of(args) == IF Len(args) > 1 THEN args[2] ELSE ClimateChange

\* line 369: os.getenv, None for a variable that is not set
getenv(env, name) == IF name \in DOMAIN env THEN Str(env[name]) ELSE None

\* the key check passing whatever the environment holds
api_key_missing_Never(env) == FALSE

\* line 370: not api_key
api_key_missing(env) == ~truthy(getenv(env, "DEMETERICS_API_KEY"))

\* lines 386-390
main_variables(args) ==
    <<Item(Category, category_of(args)), Item(Topic, topic_of(args)),
      Item(Now, Timestamp)>>

\* lines 369-373: the key check, and sys.exit(1) without a key
CheckKey ==
    /\ pc = "check_key"
    /\ IF api_key_missing(environ)
       THEN pc' = "exited" /\ exit_status' = "1"
       ELSE pc' = "ensure_template" /\ UNCHANGED exit_status
    /\ UNCHANGED <<processorVars, environ, argv, trace, conn, response, tool_calls,
                   tool_messages, result, verdict>>

\* lines 376-379: create_example_template() when the file does not exist
EnsureTemplate ==
    /\ pc = "ensure_template"
    /\ IF TEMPLATE_FILE \in DOMAIN files
       THEN UNCHANGED <<files, trace>>
       ELSE /\ files' = (TEMPLATE_FILE :> ExampleTemplate) @@ files
            /\ trace' = Append(trace, Event("create_example_template", TEMPLATE_FILE))
    /\ pc' = "construct"
    /\ UNCHANGED <<template_path, constructed, template_content, given, variables,
                   after_comments, after_subst, after_cond, output, raised, calls,
                   first_given, first_output, between>>
    /\ UNCHANGED <<environ, argv, exit_status, conn, response, tool_calls,
                   tool_messages, result, verdict>>

\* line 404, and the except clauses of lines 458-463 when the constructor
\* raises: they print the error and main returns
Construct ==
    /\ pc = "construct"
    /\ Loaded(TEMPLATE_FILE, _load_template(files, TEMPLATE_FILE))
    /\ trace' = Append(trace, Event("TemplateProcessor", TEMPLATE_FILE))
    /\ IF raised' = ""
       THEN pc' = "process" /\ UNCHANGED exit_status
       ELSE pc' = "exited" /\ exit_status' = "0"
    /\ UNCHANGED <<environ, argv, conn, response, tool_calls, tool_messages, result,
                   verdict>>

\* line 405, and the except clause when process raises
RunProcess ==
    /\ pc = "process"
    /\ Call(main_variables(argv))
    /\ trace' = Append(trace, Event("process", main_variables(argv)))
    /\ UNCHANGED <<first_given, first_output, between>>
    /\ IF raised' = ""
       THEN pc' = "connect" /\ UNCHANGED exit_status
       ELSE pc' = "exited" /\ exit_status' = "0"
    /\ UNCHANGED <<environ, argv, conn, response, tool_calls, tool_messages, result,
                   verdict>>

\* make_api_request, lines 271-283: the request data and the connection object
Connect ==
    /\ pc = "connect"
    /\ conn' = [conn EXCEPT !.opened = @ + 1]
    /\ pc' = "send"
    /\ UNCHANGED <<processorVars, environ, argv, exit_status, trace, response,
                   tool_calls, tool_messages, result, verdict>>

\* lines 285-291: conn.request, which sends the request or raises
Send ==
    /\ pc = "send"
    /\ trace' = Append(trace,
           Event("request", [system |-> output, user |-> UserMessage(topic_of(argv)),
                             key |-> environ["DEMETERICS_API_KEY"]]))
    /\ \E sent \in BOOLEAN :
           IF sent
           THEN pc' = "receive" /\ UNCHANGED response
           ELSE pc' = "close" /\ response' = [response EXCEPT !.raised = "OSError"]
    /\ UNCHANGED <<processorVars, environ, argv, exit_status, conn, tool_calls,
                   tool_messages, result, verdict>>

\* a response body: bytes that are no UTF-8, text that is no JSON document, or
\* the JSON document of a value
Undecodable == [type |-> "bytes", val |-> <<>>]
NotJson == [type |-> "text", val |-> <<>>]
Json(value) == [type |-> "json", val |-> value]

ErrorMessage == Dict("message" :> Str(<<"m">>))

\* the values a response body can encode
ApiValues ==
    {Dict("choices" :> List(<<Choice(Str(<<"e">>))>>)),
     Dict("error" :> ErrorMessage),
     Dict(("error" :> ErrorMessage) @@ ("choices" :> List(<<Choice(Str(<<"e">>))>>))),
     Dict("error" :> Dict(<<>>)),
     Dict("error" :> Str(<<"m">>)),
     Dict("error" :> None),
     Dict(<<>>),
     List(<<>>),
     List(<<Str(ErrorCategory)>>),
     Str(ErrorCategory \o <<"!">>),
     Str(<<"o", "k">>),
     Num(5),
     None}

Bodies == {Undecodable, NotJson} \cup {Json(value) : value \in ApiValues}

\* lines 294-295: getresponse and read, which raise or give the body, and
\* decode, which raises on bytes that are no UTF-8
Receive ==
    /\ pc = "receive"
    /\ \/ /\ response' = [response EXCEPT !.raised = "RemoteDisconnected"]
          /\ pc' = "close"
       \/ \E body \in Bodies :
              /\ response' = [response EXCEPT !.body = body,
                     !.raised = IF body = Undecodable THEN "UnicodeDecodeError" ELSE ""]
              /\ pc' = IF body = Undecodable THEN "close" ELSE "parse"
    /\ UNCHANGED <<processorVars, environ, argv, exit_status, trace, conn, tool_calls,
                   tool_messages, result, verdict>>

\* line 298: json.loads
json_loads(body) ==
    IF body.type = "json"
    THEN [raised |-> "", value |-> body.val]
    ELSE [raised |-> "JSONDecodeError", value |-> None]

\* line 301: 'error' in result, for each type of result
has_error(value) ==
    CASE value.type = "dict" -> [raised |-> "", value |-> "error" \in DOMAIN value.val]
      [] value.type = "list" ->
             [raised |-> "",
              value |-> \E n \in 1..Len(value.val) :
                            /\ value.val[n].type = "str"
                            /\ value.val[n].val = ErrorCategory]
      [] value.type = "str" -> [raised |-> "", value |-> Contains(value.val, ErrorCategory)]
      [] OTHER -> [raised |-> "TypeError", value |-> FALSE]

\* line 302: the exception that leaves the raise statement; the subscript and
\* the .get of its message can raise before Exception is constructed
error_raised(value) ==
    IF value.type # "dict" THEN "TypeError"
    ELSE IF value.val["error"].type # "dict" THEN "AttributeError"
    ELSE "Exception"

\* lines 301-304 returning the result whatever it holds
api_result_Unchecked(value) == [raised |-> "", result |-> value]

\* lines 301-304: the result, or the exception for a result with 'error'
api_result(value) ==
    Let(has_error(value), LAMBDA found :
        IF found.raised # "" THEN [raised |-> found.raised, result |-> None]
        ELSE IF found.value THEN [raised |-> error_raised(value), result |-> None]
        ELSE [raised |-> "", result |-> value])

\* lines 298-304
Parse ==
    /\ pc = "parse"
    /\ Let(json_loads(response.body), LAMBDA parsed :
       Let(IF parsed.raised # "" THEN [raised |-> parsed.raised, result |-> None]
           ELSE api_result(parsed.value), LAMBDA r :
           response' = [response EXCEPT !.raised = r.raised, !.result = r.result]))
    /\ pc' = "close"
    /\ UNCHANGED <<processorVars, environ, argv, exit_status, trace, conn, tool_calls,
                   tool_messages, result, verdict>>

\* lines 306-307: the finally clause; then line 425 gets the result, or the
\* except clause of main prints the exception and main returns
CloseConnection ==
    /\ pc = "close"
    /\ conn' = [conn EXCEPT !.closed = @ + 1]
    /\ IF response.raised = ""
       THEN pc' = "display" /\ UNCHANGED exit_status
       ELSE pc' = "exited" /\ exit_status' = "0"
    /\ UNCHANGED <<processorVars, environ, argv, trace, response, tool_calls,
                   tool_messages, result, verdict>>

\* lines 428-456: display_response and the notes; an exception of
\* display_response is printed by the except clause, and main returns
Display ==
    /\ pc = "display"
    /\ trace' = Append(trace, Event("display_response", response.result))
    /\ pc' = "exited"
    /\ exit_status' = "0"
    /\ UNCHANGED <<processorVars, environ, argv, conn, response, tool_calls,
                   tool_messages, result, verdict>>

\* what the script is started with: the key unset, empty or set; the template
\* file missing or written by the user; no argument, a category, or a
\* category and a topic
Environments ==
    {<<>>, "DEMETERICS_API_KEY" :> <<>>, "DEMETERICS_API_KEY" :> <<"k">>}

MainFiles == {<<>>} \cup {TEMPLATE_FILE :> text : text \in LoadTexts}

Arguments == {<<>>, <<History>>, <<<<"A">>, Lasers>>, <<<<"a", Backslash, "1">>>>}

InitMain ==
    /\ NoProcessor
    /\ files \in MainFiles
    /\ pc = "check_key"
    /\ environ \in Environments
    /\ argv \in Arguments
    /\ exit_status = ""
    /\ trace = <<>>
    /\ conn = NoConnection
    /\ response = NoResponse
    /\ tool_calls = None
    /\ tool_messages = <<>>
    /\ result = None
    /\ verdict = NoVerdict

NextMain ==
    \/ CheckKey
    \/ EnsureTemplate
    \/ Construct
    \/ RunProcess
    \/ Connect
    \/ Send
    \/ Receive
    \/ Parse
    \/ CloseConnection
    \/ Display

SpecMain == InitMain /\ [][NextMain]_vars

----------------------------------------------------------------------------
(* src/python/11_tool_use.py *)

\* line 20: one of the two keys is unset or empty
keys_missing(env) ==
    \/ ~truthy(getenv(env, "DEMETERICS_API_KEY"))
    \/ ~truthy(getenv(env, "TAVILY_API_KEY"))

\* line 112
user_query ==
    <<"S", "e", "a", "r", "c", "h", " ", "f", "o", "r", " ", "t", "h", "e",
      " ", "l", "a", "t", "e", "s", "t", " ", "d", "e", "v", "e", "l", "o",
      "p", "m", "e", "n", "t", "s", " ", "i", "n", " ", "q", "u", "a", "n",
      "t", "u", "m", " ", "c", "o", "m", "p", "u", "t", "i", "n", "g", " ",
      "a", "n", "d", " ", "p", "r", "o", "v", "i", "d", "e", " ", "a", " ",
      "s", "u", "m", "m", "a", "r", "y">>

\* line 157, line 195
UserQueryMessage == [role |-> "user", content |-> user_query]

\* lines 116-153: the two tool definitions, by name
tools == List(<<"tavily_search", "tavily_extract">>)

\* call_groq, lines 89-98: the request body; tools and tool_choice only for
\* tools that are given and not empty
request_data(messages, tool_list) ==
    IF truthy(tool_list)
    THEN [model |-> "meta-llama/llama-4-scout-17b-16e-instruct", messages |-> messages,
          tools |-> tool_list, tool_choice |-> "auto"]
    ELSE [model |-> "meta-llama/llama-4-scout-17b-16e-instruct", messages |-> messages]

\* an HTTPS request: conn.request('POST', path, body, headers) on a connection
\* to host
Request(host, path, body) == Event("request", [host |-> host, path |-> path, body |-> body])

\* call_groq, lines 83-100
GroqRequest(messages, tool_list) ==
    Request("api.demeterics.com", "/groq/v1/chat/completions",
            request_data(messages, tool_list))

\* arguments[key], lines 75 and 77, or the exception of the subscript
subscript(arguments, key) ==
    IF arguments.type # "dict" THEN [raised |-> "TypeError", value |-> None]
    ELSE IF key \notin DOMAIN arguments.val THEN [raised |-> "KeyError", value |-> None]
    ELSE [raised |-> "", value |-> arguments.val[key]]

\* tavily_search, lines 27-48, with the reply the service gives: the request
\* is sent, and the call returns the parsed reply or raises
tavily_search(query, reply) ==
    [raised |-> reply.raised,
     requests |-> <<Request("api.tavily.com", "/search",
                            [query |-> query, max_results |-> 5, include_answer |-> TRUE])>>,
     result |-> reply.value]

\* tavily_extract, lines 50-70
tavily_extract(url, reply) ==
    [raised |-> reply.raised,
     requests |-> <<Request("api.tavily.com", "/extract",
                            [urls |-> <<url>>, extract_depth |-> "basic"])>>,
     result |-> reply.value]

\* execute_tool answering None for a function it does not know
execute_tool_Lenient(function_name, arguments, reply) ==
    IF function_name = "tavily_search"
    THEN Let(subscript(arguments, "query"), LAMBDA query :
         IF query.raised # ""
         THEN [raised |-> query.raised, requests |-> <<>>, result |-> None]
         ELSE tavily_search(query.value, reply))
    ELSE IF function_name = "tavily_extract"
    THEN Let(subscript(arguments, "url"), LAMBDA url :
         IF url.raised # ""
         THEN [raised |-> url.raised, requests |-> <<>>, result |-> None]
         ELSE tavily_extract(url.value, reply))
    ELSE [raised |-> "", requests |-> <<>>, result |-> None]

\* execute_tool, lines 72-79: the requests it sends and its result or exception
execute_tool(function_name, arguments, reply) ==
    IF function_name = "tavily_search"
    THEN Let(subscript(arguments, "query"), LAMBDA query :
         IF query.raised # ""
         THEN [raised |-> query.raised, requests |-> <<>>, result |-> None]
         ELSE tavily_search(query.value, reply))
    ELSE IF function_name = "tavily_extract"
    THEN Let(subscript(arguments, "url"), LAMBDA url :
         IF url.raised # ""
         THEN [raised |-> url.raised, requests |-> <<>>, result |-> None]
         ELSE tavily_extract(url.value, reply))
    ELSE [raised |-> "ValueError", requests |-> <<>>, result |-> None]

\* json.dumps, line 186: the document of a value
json_dumps(value) == Json(value)

\* lines 183-187
tool_message(tool_call, tool_result) ==
    [role |-> "tool", tool_call_id |-> tool_call.id, content |-> json_dumps(tool_result)]

\* the final messages with the tool messages before the query
final_messages_ToolsFirst(message, messages) ==
    messages \o <<UserQueryMessage, message>>

\* lines 194-198: the messages of the final request
final_messages(message, messages) ==
    <<UserQueryMessage, message>> \o messages

\* the tool calls a model can ask for: up to MaxToolCalls calls, each of a
\* known or unknown function with arguments that are a JSON object with a
\* query, with a url or with neither, or that are no JSON document; the id of
\* the n-th call is n
MaxToolCalls == 2

FunctionNames == {"tavily_search", "tavily_extract", "get_weather"}

ArgumentTexts ==
    {Json(Dict("query" :> Str(<<"q">>))), Json(Dict("url" :> Str(<<"u">>))),
     Json(Dict(<<>>)), NotJson}

Functions == {[name |-> name, arguments |-> text] : name \in FunctionNames, text \in ArgumentTexts}

ToolCallLists ==
    UNION {{[n \in 1..k |-> [id |-> n, function |-> fs[n]]] : fs \in [1..k -> Functions]} :
              k \in 0..MaxToolCalls}

\* the message of the initial response: with no tool_calls, or with a list
AssistantMessage(asked) ==
    [role |-> "assistant", content |-> <<"a">>, tool_calls |-> asked]

\* how a call of call_groq can end for main: an exception of the connection
\* or of json.loads, a response without choices (KeyError on lines 161, 204),
\* or a response with a message
GroqReplies(messages) ==
    {[raised |-> e, message |-> None] : e \in {"OSError", "JSONDecodeError", "KeyError"}}
        \cup {[raised |-> "", message |-> message] : message \in messages}

InitialMessages ==
    {AssistantMessage(None)} \cup {AssistantMessage(List(asked)) : asked \in ToolCallLists}

\* how a request to api.tavily.com can end
ToolReplies ==
    {[raised |-> "OSError", value |-> None], [raised |-> "JSONDecodeError", value |-> None],
     [raised |-> "", value |-> Dict("answer" :> Str(<<"r">>))]}

\* sys.exit(1) of lines 24 and 232
Exit(status) == pc' = "exited" /\ exit_status' = status

\* lines 20-24
CheckKeys ==
    /\ pc = "check_keys"
    /\ IF keys_missing(environ) THEN Exit("1")
       ELSE pc' = "initial_request" /\ UNCHANGED exit_status
    /\ UNCHANGED <<processorVars, environ, argv, trace, conn, response, tool_calls,
                   tool_messages, result, verdict>>

\* lines 156-161: the initial request with the tool definitions, and the
\* tool_calls of its response
InitialRequest ==
    /\ pc = "initial_request"
    /\ trace' = Append(trace, GroqRequest(<<UserQueryMessage>>, tools))
    /\ \E reply \in GroqReplies(InitialMessages) :
           /\ response' = [raised |-> reply.raised, body |-> None, result |-> reply.message]
           /\ IF reply.raised # ""
              THEN Exit("1") /\ UNCHANGED tool_calls
              ELSE /\ tool_calls' = reply.message.tool_calls
                   /\ pc' = "check_tool_calls"
                   /\ UNCHANGED exit_status
    /\ UNCHANGED <<processorVars, environ, argv, conn, tool_messages, result, verdict>>

\* lines 163-174: main returns when there are no tool calls
CheckToolCalls ==
    /\ pc = "check_tool_calls"
    /\ IF ~truthy(tool_calls) THEN Exit("0")
       ELSE pc' = "for_tool_call" /\ UNCHANGED exit_status
    /\ tool_messages' = <<>>
    /\ UNCHANGED <<processorVars, environ, argv, trace, conn, response, tool_calls,
                   result, verdict>>

\* lines 176-189: one iteration of the loop, on the next tool call; an
\* exception leaves main and ends the script with status 1 (lines 230-232)
ExecuteToolCall ==
    /\ pc = "for_tool_call"
    /\ Len(tool_messages) < Len(tool_calls.val)
    /\ \E reply \in ToolReplies :
       Let(tool_calls.val[Len(tool_messages) + 1], LAMBDA tool_call :
       Let(json_loads(tool_call.function.arguments), LAMBDA args :
           IF args.raised # ""
           THEN /\ response' = [response EXCEPT !.raised = args.raised]
                /\ Exit("1")
                /\ UNCHANGED <<trace, tool_messages>>
           ELSE Let(execute_tool(tool_call.function.name, args.value, reply), LAMBDA done :
                /\ trace' = Append(trace,
                       Event("execute_tool",
                             [id |-> tool_call.id, name |-> tool_call.function.name]))
                       \o done.requests
                /\ response' = [response EXCEPT !.raised = done.raised]
                /\ IF done.raised # ""
                   THEN Exit("1") /\ UNCHANGED tool_messages
                   ELSE /\ tool_messages' =
                               Append(tool_messages, tool_message(tool_call, done.result))
                        /\ UNCHANGED <<pc, exit_status>>)))
    /\ UNCHANGED <<processorVars, environ, argv, conn, tool_calls, result, verdict>>

\* lines 194-225: after the loop, the final request without tool definitions,
\* the answer and the usage it prints, and the return of main
FinalRequest ==
    /\ pc = "for_tool_call"
    /\ Len(tool_messages) = Len(tool_calls.val)
    /\ trace' = Append(trace,
           GroqRequest(final_messages(response.result, tool_messages), None))
    /\ \E reply \in GroqReplies({AssistantMessage(None)}) :
           IF reply.raised # ""
           THEN response' = [response EXCEPT !.raised = reply.raised] /\ Exit("1")
           ELSE UNCHANGED response /\ Exit("0")
    /\ UNCHANGED <<processorVars, environ, argv, conn, tool_calls, tool_messages, result,
                   verdict>>

ToolEnvironments ==
    {<<>>, "DEMETERICS_API_KEY" :> <<"k">>,
     ("DEMETERICS_API_KEY" :> <<"k">>) @@ ("TAVILY_API_KEY" :> <<>>),
     ("DEMETERICS_API_KEY" :> <<"k">>) @@ ("TAVILY_API_KEY" :> <<"t">>)}

InitTools ==
    /\ NoProcessor
    /\ files = <<>>
    /\ pc = "check_keys"
    /\ environ \in ToolEnvironments
    /\ argv = <<>>
    /\ exit_status = ""
    /\ trace = <<>>
    /\ conn = NoConnection
    /\ response = NoResponse
    /\ tool_calls = None
    /\ tool_messages = <<>>
    /\ result = None
    /\ verdict = NoVerdict

NextTools ==
    \/ CheckKeys
    \/ InitialRequest
    \/ CheckToolCalls
    \/ ExecuteToolCall
    \/ FinalRequest

SpecTools == InitTools /\ [][NextTools]_vars

----------------------------------------------------------------------------
(* Conditional selection, checked under Spec *)

Returned == calls > 0 /\ raised = ""
HasCategory == Category \in Keys(given)
Cat == Bound(given, Category).val

Rendered == {[block |-> b, text |-> BlockTemplate(b)] : b \in Blocks}

\* the text after step 3 when the block is replaced by body
Replaced(body) == Before \o body \o After

Matching(elifs, cat) == {n \in 1..Len(elifs) : elifs[n] = cat}
FirstMatch(elifs, cat) ==
    CHOOSE n \in Matching(elifs, cat) : \A m \in Matching(elifs, cat) : n <= m

ElseResult(b) == IF b.else THEN strip(ElseBody) ELSE <<>>

OtherBodies == {<<"q">>, <<"r">>, <<"s">>, <<"t">>, <<"z">>}

\* C1: when Category differs from the if literal, the block is replaced by
\* the trimmed body of the first else-if clause whose literal equals Category,
\* wherever that clause stands in the block.
C1_FirstMatchingElseIf ==
    \A r \in Rendered :
        (/\ Returned
         /\ template_content = r.text
         /\ HasCategory
         /\ Cat # r.block.lit
         /\ Matching(r.block.elifs, Cat) # {})
        => after_cond =
               Replaced(strip(ElseIfBody(FirstMatch(r.block.elifs, Cat))))

\* C6: when Category equals the if literal, the block is replaced by exactly
\* the trimmed if-body, and no text of an else-if or else body is in the output.
C6_IfBodyOnly ==
    \A r \in Rendered :
        (Returned /\ template_content = r.text /\ HasCategory /\ Cat = r.block.lit)
        => /\ after_cond = Replaced(strip(IfBody))
           /\ output = Replaced(strip(IfBody))
           /\ \A w \in OtherBodies : ~Contains(output, w)

C6_Witness ==
    /\ Returned
    /\ template_content =
           BlockTemplate([lit |-> <<"A">>, elifs |-> <<<<"B">>>>, else |-> TRUE])
    /\ given = <<Item(Category, <<"A">>)>>
    /\ output = <<"x", "p", "y">>

\* C7: when Category equals neither the if literal nor an else-if literal, the
\* block is replaced by the trimmed body of the bare else, or by the empty
\* string when the block has no bare else.
C7_NoMatchTakesElse ==
    \A r \in Rendered :
        (/\ Returned
         /\ template_content = r.text
         /\ HasCategory
         /\ Cat # r.block.lit
         /\ Matching(r.block.elifs, Cat) = {})
        => after_cond = Replaced(ElseResult(r.block))

C7_Witness ==
    /\ Returned
    /\ template_content =
           BlockTemplate([lit |-> <<"A">>, elifs |-> <<<<"B">>>>, else |-> TRUE])
    /\ given = <<Item(Category, <<"Z">>)>>
    /\ after_cond = <<"x", "z", "y">>

\* C8: when the bindings omit Category, no if or else-if body is emitted
\* whatever its literal; the block is replaced by the trimmed body of the bare
\* else, or by the empty string when there is none.
C8_MissingSelectorTakesElse ==
    \A r \in Rendered :
        (Returned /\ template_content = r.text /\ ~HasCategory)
        => after_cond = Replaced(ElseResult(r.block))

ScienceBindings == <<Item(Category, Science), Item(Topic, Lasers)>>
TopicBindings == <<Item(Topic, Lasers)>>

TopicSubstitutedScience ==
    <<"T", "o", "p", "i", "c", ":", " ", "L", "a", "s", "e", "r", "s", NL,
      "F", "o", "c", "u", "s", ":", " ", "e", "v", "i", "d", "e", "n", "c",
      "e", " ", "a", "n", "d", " ", "m", "e", "t", "h", "o", "d", ".">>
TopicSubstitutedDefault ==
    <<"T", "o", "p", "i", "c", ":", " ", "L", "a", "s", "e", "r", "s", NL,
      "F", "o", "c", "u", "s", ":", " ", "g", "e", "n", "e", "r", "a", "l",
      " ", "o", "v", "e", "r", "v", "i", "e", "w", ".">>
TopicKeptScience ==
    <<"T", "o", "p", "i", "c", ":", " ", "[", "[", ".", "T", "o", "p", "i",
      "c", "]", "]", NL, "F", "o", "c", "u", "s", ":", " ", "e", "v", "i",
      "d", "e", "n", "c", "e", " ", "a", "n", "d", " ", "m", "e", "t", "h",
      "o", "d", ".">>
TopicKeptDefault ==
    <<"T", "o", "p", "i", "c", ":", " ", "[", "[", ".", "T", "o", "p", "i",
      "c", "]", "]", NL, "F", "o", "c", "u", "s", ":", " ", "g", "e", "n",
      "e", "r", "a", "l", " ", "o", "v", "e", "r", "v", "i", "e", "w", ".">>

----------------------------------------------------------------------------
(* Substitution, checked under SpecSubst *)

Open == <<"[", "[">>

\* one left-to-right pass over text that replaces each placeholder of a bound
\* key other than exempt by the string form of its value and keeps the rest
RECURSIVE OnePass(_, _, _)
OnePass(text, vs, exempt) ==
    LET i == Find(text, PlaceholderOpen, 1)
        j == IF i = 0 THEN 0 ELSE Find(text, Close, i + Len(PlaceholderOpen))
        key == Slice(text, i + Len(PlaceholderOpen), j)
    IN  IF i = 0 THEN text
        ELSE IF j # 0 /\ key \in Keys(vs) /\ key # exempt
        THEN Slice(text, 1, i) \o str(Bound(vs, key))
             \o OnePass(SubSeq(text, j + Len(Close), Len(text)), vs, exempt)
        ELSE Slice(text, 1, i + 1)
             \o OnePass(SubSeq(text, i + 1, Len(text)), vs, exempt)

\* no bound value holds the character [
PlainValues(vs) == \A n \in 1..Len(vs) : ~Contains(str(vs[n].value), <<"[">>)

\* C3 as stated: step 2 replaces every placeholder of every bound key other
\* than the selector key Category, and skips the placeholders of Category only.
C3_SelectorKeyExempt ==
    (Returned /\ PlainValues(given))
    => after_subst = OnePass(after_comments, given, Category)

\* C3 amended: step 2 replaces every placeholder of every bound key other
\* than Topic by the string form of its value, the placeholders of the
\* selector key Category included, and skips the placeholders of Topic only
\* (bound values without the character [).
C3_TopicKeyExempt ==
    (Returned /\ PlainValues(given))
    => after_subst = OnePass(after_comments, given, Topic)

C3_Witness ==
    /\ Returned
    /\ template_content = PlaceholderPattern(Topic) \o PlaceholderPattern(Category)
    /\ given = <<Item(Category, <<"A">>), Item(Topic, <<"T">>)>>
    /\ after_subst = PlaceholderPattern(Topic) \o <<"A">>

\* the keys of the placeholders [[.K]] of a text
PlaceholderKeys(text) ==
    {Slice(text, i + Len(PlaceholderOpen),
           Find(text, Close, i + Len(PlaceholderOpen))) :
        i \in {k \in 1..Len(text) :
                  /\ StartsAt(text, k, PlaceholderOpen)
                  /\ Find(text, Close, k + Len(PlaceholderOpen)) # 0}}

\* every [[ of the text opens a placeholder of one of the keys
OnlyPlaceholdersOf(text, keys) ==
    \A i \in 1..Len(text) :
        StartsAt(text, i, Open)
        => \E k \in keys : StartsAt(text, i, PlaceholderPattern(k))

----------------------------------------------------------------------------
(* Marker cleanup, checked under SpecMarkers *)

\* C2: the returned string holds no "[[if", no "[[else" and no "[[end]]",
\* for well-formed and for malformed templates.
C2_NoMarkerLeft ==
    Returned
    => /\ ~Contains(output, IfOpen)
       /\ ~Contains(output, ElseOpen)
       /\ ~Contains(output, EndMarker)

----------------------------------------------------------------------------
(* Several calls on one processor, checked under SpecCalls *)

\* the same key/value pairs, whatever their insertion order
SameItems(a, b) == {a[n] : n \in 1..Len(a)} = {b[n] : n \in 1..Len(b)}

\* C9: two bindings that hold the same key/value pairs inserted in different
\* orders compile to the same string.
C9_InsertionOrderIrrelevant ==
    (calls > 0 /\ SameItems(given, first_given)) => output = first_output

----------------------------------------------------------------------------
(* Unbound placeholders and stray markers, checked under SpecStray *)

Unbound == PlaceholderPattern(User)

Occurrences(text, p) == Cardinality({i \in 1..Len(text) : StartsAt(text, i, p)})

\* the text with a blank in the place of each conditional block: each match
\* of [[if .Category == "..."]] ... [[end]], leftmost first
RECURSIVE BlocksBlanked(_)
BlocksBlanked(text) ==
    LET i == Find(text, IfHead, 1)
        j == IF i = 0 THEN 0 ELSE Find(text, QuoteClose, i + Len(IfHead))
        k == IF j = 0 THEN 0 ELSE Find(text, EndMarker, j + Len(QuoteClose))
    IN  IF k = 0 THEN text
        ELSE Slice(text, 1, i) \o <<" ">>
             \o BlocksBlanked(SubSeq(text, k + Len(EndMarker), Len(text)))

\* the occurrences of the unbound placeholder outside comment lines and
\* outside conditional blocks
OutsideOccurrences == Occurrences(BlocksBlanked(after_comments), Unbound)

\* C11 as stated: a placeholder whose key is not bound and which lies outside
\* comment lines and outside conditional blocks is in the returned string as
\* it was, and process raises nothing.
C11_UnboundKept ==
    (calls > 0 /\ User \notin Keys(given))
    => /\ raised = ""
       /\ Occurrences(output, Unbound) >= OutsideOccurrences

\* C11 amended: when step 3 leaves no "[[if" and no "[[else" in the text, a
\* placeholder whose key is not bound and which lies outside comment lines
\* and outside conditional blocks is in the returned string as it was, and
\* process raises nothing.
C11_UnboundKeptWithoutStrayMarkers ==
    (/\ calls > 0
     /\ User \notin Keys(given)
     /\ ~Contains(after_cond, IfOpen)
     /\ ~Contains(after_cond, ElseOpen))
    => /\ raised = ""
       /\ Occurrences(output, Unbound) >= OutsideOccurrences

C11_Witness ==
    /\ Returned
    /\ template_content = BlockHead \o EndMarker \o Unbound
    /\ given = <<Item(Category, <<"A">>)>>
    /\ after_cond = Unbound
    /\ output = Unbound

\* a match of one of the marker patterns of line 249 starts at i
MarkerAt(text, open, i) ==
    /\ StartsAt(text, i, open)
    /\ \E j \in (i + Len(open))..Len(text) :
           /\ StartsAt(text, j, Close)
           /\ \A k \in (i + Len(open))..(j - 1) : text[k] # NL

HasMarker(text) ==
    \/ Contains(text, EndMarker)
    \/ \E i \in 1..Len(text) : MarkerAt(text, IfOpen, i) \/ MarkerAt(text, ElseOpen, i)

\* C13: on a template of malformed conditional syntax process raises nothing
\* and returns a string from which the markers that step 3 did not consume
\* are removed: no [[if ...]], no [[else ...]] and no [[end]] is in it.
C13_MalformedDegrades ==
    calls > 0 => (raised = "" /\ ~HasMarker(output))

----------------------------------------------------------------------------
(* Comment lines, checked under SpecLines *)

\* the whitespace a line can hold
Blanks == Whitespace \ {NL}

\* the indices at which a line of the text begins
LineStarts(text) == {1} \cup {i + 1 : i \in {k \in 1..Len(text) : text[k] = NL}}

\* the line that begins at index a holds only blanks before a ///
CommentLineAt(text, a) ==
    \E i \in a..Len(text) :
        /\ StartsAt(text, i, CommentMarker)
        /\ \A k \in a..(i - 1) : text[k] \in Blanks

HasCommentLine(text) == \E a \in LineStarts(text) : CommentLineAt(text, a)

Slash == <<"/">>
NoSlashBound(vs) == \A n \in 1..Len(vs) : ~Contains(str(vs[n].value), Slash)

\* C12 as stated: for every template and bindings, the returned string has
\* no line whose trimmed content starts with ///.
C12_NoCommentLineInOutput ==
    Returned => ~HasCommentLine(output)

\* C12 amended: whatever the bindings and the branch taken, the text after
\* step 1 has no line whose trimmed content starts with ///; and the returned
\* string has no such line when no / stands in the template outside its
\* comment lines or in a bound value.
C12_CommentLinesRemoved ==
    Returned
    => /\ ~HasCommentLine(after_comments)
       /\ (~Contains(after_comments, Slash) /\ NoSlashBound(given))
          => ~HasCommentLine(output)

C12_Witness ==
    /\ Returned
    /\ template_content = <<" ">> \o CommentMarker \o <<NL>> \o <<"x">>
    /\ given = <<>>
    /\ HasCommentLine(template_content)
    /\ output = <<"x">>

\* C15: applying _remove_comments to its own result changes nothing, and the
\* result has no line whose trimmed content starts with ///.
C15_Idempotent ==
    calls > 0
    => /\ _remove_comments(after_comments) = after_comments
       /\ \A a \in LineStarts(after_comments) : ~CommentLineAt(after_comments, a)

C15_Witness ==
    /\ calls > 0
    /\ template_content = CommentMarker \o <<NL>> \o CommentMarker \o <<"x">>
    /\ after_comments = <<>>
    /\ _remove_comments(after_comments) = <<>>

\* the index at which the line of index p begins
LineStartOf(text, p) ==
    CHOOSE a \in LineStarts(text) :
        a <= p /\ \A b \in LineStarts(text) : b <= p => b <= a

\* the characters of text at the indices of keep, in their order
Selected(text, keep) ==
    [n \in 1..Cardinality(keep) |->
        text[CHOOSE p \in keep : Cardinality({q \in keep : q <= p}) = n]]

\* every line closed by a newline, the lines that are not comment lines kept
\* with their newline, and the last newline dropped
KeptLines(text) ==
    LET closed == text \o <<NL>>
        keep == {p \in 1..Len(closed) : ~CommentLineAt(closed, LineStartOf(closed, p))}
        kept == Selected(closed, keep)
    IN  SubSeq(kept, 1, Len(kept) - 1)

\* C20: _remove_comments returns the lines of its input whose trimmed content
\* does not start with ///, unchanged, in their order, joined by single
\* newlines.
C20_NonCommentLinesKept ==
    calls > 0 => after_comments = KeptLines(template_content)

C20_Witness ==
    /\ calls > 0
    /\ template_content = <<"x", NL>> \o CommentMarker \o <<NL>>
    /\ after_comments = <<"x", NL>>

----------------------------------------------------------------------------
(* Values that are not strings, checked under SpecTyped *)

\* C14: with bindings that hold integers, the value of the selector key
\* Category among them, process returns normally for every template and each
\* substituted placeholder is replaced by the decimal form of its value.
C14_AnyValueConvertible ==
    calls > 0
    => /\ raised = ""
       /\ after_subst = OnePass(after_comments, given, Topic)

----------------------------------------------------------------------------
(* Blank lines, checked under SpecBlank *)

\* a piece of text without its [[end]] markers
Unmarked(piece) == re_sub_literal(EndMarker, <<>>, piece)

\* something other than whitespace is left of the piece without its markers
Visible(piece) == strip(Unmarked(piece)) # <<>>

OneBlankLine == <<NL, NL>>

\* C16 as stated: where the text that reaches step 4 has three or more blank
\* lines in a row (four or more newlines) between two pieces of text, the
\* returned string has exactly one blank line in that place.
C16_OneBlankLineInInterior ==
    \A l \in Lefts, r \in Rights, k \in 4..MaxNewlines :
        (Returned /\ after_cond = Spaced(l, k, r))
        => Occurrences(output, OneBlankLine) = 1

\* C16 amended: where the text that reaches step 4 has two or more blank
\* lines in a row (three or more newlines), and text other than whitespace
\* and conditional markers stands before and after them, the returned string
\* has exactly one blank line in that place.
C16_OneBlankLineBetweenText ==
    \A l \in Lefts, r \in Rights, k \in 3..MaxNewlines :
        (Returned /\ after_cond = Spaced(l, k, r) /\ Visible(l) /\ Visible(r))
        => output = Unmarked(l) \o OneBlankLine \o Unmarked(r)

C16_Witness ==
    /\ Returned
    /\ after_cond = <<"a">> \o EndMarker \o <<NL, NL, NL, NL>> \o <<"b">>
    /\ output = <<"a", NL, NL, "b">>

----------------------------------------------------------------------------
(* Loading, checked under SpecLoad *)

\* C17: constructing a processor from a path that does not exist raises
\* FileNotFoundError and yields no processor, so that no process call can
\* follow; template_content is not set and the file system is left as it was.
C17_NotFoundAtLoad ==
    [][/\ (~constructed /\ template_path' \notin DOMAIN files)
          => /\ raised' = "FileNotFoundError"
             /\ ~constructed'
             /\ template_content' = template_content
             /\ files' = files
       /\ ~constructed' => calls' = 0]_vars

C17_Witness ==
    /\ raised = "FileNotFoundError"
    /\ ~constructed
    /\ template_path = OTHER_FILE
    /\ OTHER_FILE \notin DOMAIN files
    /\ TEMPLATE_FILE \in DOMAIN files
    /\ template_content = <<>>
    /\ calls = 0

----------------------------------------------------------------------------
(* Several blocks, checked under SpecPairs *)

PairRendered ==
    {[first |-> b1, second |-> b2, text |-> PairTemplate(b1, b2)] :
        b1, b2 \in PairBlocks}

\* what step 3 makes of the block when it is the whole text
Alone(b, vs) == _process_conditionals(BlockText(b), vs).text

\* C18: of two blocks that follow each other, each is replaced by what it
\* would be replaced by if it were the only block, and the text before,
\* between and after them stays in its order.
C18_BlocksIndependent ==
    \A r \in PairRendered :
        (Returned /\ after_subst = r.text)
        => after_cond = Before \o Alone(r.first, given) \o Middle
                        \o Alone(r.second, given) \o After

C18_Witness ==
    /\ Returned
    /\ template_content =
           PairTemplate([lit |-> <<"A">>, elifs |-> <<>>, else |-> TRUE],
                        [lit |-> <<"B">>, elifs |-> <<>>, else |-> FALSE])
    /\ given = <<Item(Category, <<"B">>)>>
    /\ after_cond = <<"x", "z", "m", "p", "y">>

----------------------------------------------------------------------------
(* Literal substitution, checked under SpecLiteral *)

\* C19: with one key K bound to V, step 2 raises nothing and replaces each
\* occurrence of the exact text [[.K]] by the string form of V, character
\* for character, whatever characters K and V hold, and changes nothing else.
C19_ExactAndLiteral ==
    (calls > 0 /\ Len(given) = 1)
    => /\ raised = ""
       /\ after_subst =
              re_sub_literal(PlaceholderPattern(given[1].key),
                             str(given[1].value), after_comments)

----------------------------------------------------------------------------
(* The order of the four steps, checked under SpecStages *)

\* the placeholder of Now stands in the body that the bindings select
NowInSelectedBody ==
    \E pre \in StageEdges, post \in StageEdges, b1 \in StageBodies, b2 \in StageBodies :
        /\ template_content =
               pre \o BlockHead \o b1 \o ElseMarker \o b2 \o EndMarker \o post
        /\ Contains(IF HasCategory /\ Cat = <<"A">> THEN b1 ELSE b2,
                    PlaceholderPattern(Now))

----------------------------------------------------------------------------
(* The ends and the blank lines of the output, checked under SpecTrim *)

\* C22: the string process returns neither starts nor ends with a whitespace
\* character, and a template that is empty or made only of whitespace,
\* comment lines and markers compiles to the empty string.
C22_Trimmed ==
    Returned =>
        /\ output # <<>> =>
               /\ output[1] \notin Whitespace
               /\ output[Len(output)] \notin Whitespace
        /\ template_content \in QuietTemplates => output = <<>>

C22_Witness ==
    /\ Returned
    /\ template_content = <<" ">> \o BlockHead \o OwnCommentLine \o (EndMarker \o <<NL>>)
    /\ after_cond # <<>>
    /\ output = <<>>

\* C29: the string process returns never holds three newline characters in a
\* row.
C29_NoThreeNewlines ==
    Returned => ~Contains(output, <<NL, NL, NL>>)

C29_Witness ==
    /\ Returned
    /\ Contains(after_cond, <<NL, NL>> \o EndMarker \o <<NL>>)
    /\ Contains(output, <<"x", NL, NL, "x">>)

----------------------------------------------------------------------------
(* The exemption of Topic, checked under SpecTopic *)

TopicPlaceholder == PlaceholderPattern(Topic)

\* step 2 replaced no [[.Topic]]
TopicNotSubstituted ==
    Occurrences(after_subst, TopicPlaceholder)
        = Occurrences(after_comments, TopicPlaceholder)

----------------------------------------------------------------------------
(* Branch selection and the other bindings, checked under SpecInject *)

\* the clause bodies of the block that a returned string shows
Emitted(text) == {b \in {<<"p">>, <<"z">>} : Contains(text, b)}

\* C28: two calls on the same template that bind Category to the same value
\* emit the same clause body of the block, whatever they bind to the other
\* keys.
C28_SelectionIndependent ==
    (/\ calls > 1
     /\ raised = ""
     /\ Bound(given, Category) = Bound(first_given, Category))
    => Emitted(output) = Emitted(first_output)

----------------------------------------------------------------------------
(* interpret_safety_result, checked under SpecSafety *)

\* the response has a choices list that is not empty
HasChoices ==
    /\ "choices" \in DOMAIN result.val
    /\ result.val["choices"].type = "list"
    /\ result.val["choices"].val # <<>>

\* the content of the first choice, when it is a string
FirstContent == result.val["choices"].val[1].val["message"].val["content"]

HasContent ==
    /\ HasChoices
    /\ Content(result).raised = ""
    /\ FirstContent.type = "str"

\* the keys of categories that the lowercased content holds, by position
Matches == {n \in 1..Len(categories) : Contains(lower(FirstContent.val), categories[n].key)}

\* C30: interpret_safety_result returns is_safe = True only for a response
\* with a choices list that is not empty and whose first content, lowercased,
\* starts with "safe"; missing or empty choices give (False, "error", ...);
\* any other content gives is_safe = False with the first key of categories,
\* in the order of the dict, that the content holds, or "unsafe" when it
\* holds none.
C30_FailsClosed ==
    pc = "interpreted" =>
        /\ verdict.is_safe =>
               /\ verdict.raised = ""
               /\ HasContent
               /\ startswith(lower(FirstContent.val), Safe)
        /\ ~HasChoices =>
               verdict = Verdict(FALSE, ErrorCategory, NoResponseExplanation)
        /\ (HasContent /\ ~startswith(lower(FirstContent.val), Safe)) =>
               /\ verdict.raised = ""
               /\ ~verdict.is_safe
               /\ verdict.category =
                      IF Matches = {} THEN Unsafe ELSE categories[Least(Matches)].key

C30_Witness ==
    /\ pc = "interpreted"
    /\ HasContent
    /\ FirstContent.val = categories[3].key \o <<" ">> \o categories[1].key
    /\ verdict.category = categories[1].key
    /\ ~verdict.is_safe

----------------------------------------------------------------------------
(* The order of main and the connection of make_api_request, checked under
   SpecMain *)

KeySet == "DEMETERICS_API_KEY" \in DOMAIN environ

\* the script has done op, and the position of the first time it did
Did(op) == \E n \in 1..Len(trace) : trace[n].op = op
FirstTime(op) == Least({n \in 1..Len(trace) : trace[n].op = op})
Ops == [n \in 1..Len(trace) |-> trace[n].op]

\* C24: in main the key check comes first; without the key the script exits
\* with status 1 and has created no file, constructed no processor, compiled
\* no template and sent no request; with the key and without the template
\* file, create_example_template runs before TemplateProcessor is
\* constructed; the request is sent only after process has returned the
\* compiled prompt, which is its system message.
C24_MainOrder ==
    /\ [](/\ pc = "check_key" => (trace = <<>> /\ ~constructed /\ calls = 0)
          /\ ~KeySet =>
                 /\ pc \in {"check_key", "exited"}
                 /\ pc = "exited" => exit_status = "1"
                 /\ trace = <<>> /\ ~constructed /\ calls = 0 /\ conn = NoConnection
          /\ Did("TemplateProcessor") => TEMPLATE_FILE \in DOMAIN files
          /\ (Did("create_example_template") /\ Did("TemplateProcessor")) =>
                 FirstTime("create_example_template") < FirstTime("TemplateProcessor")
          /\ Did("request") =>
                 /\ calls = 1 /\ raised = ""
                 /\ FirstTime("process") < FirstTime("request")
                 /\ trace[FirstTime("request")].detail.system = output)
    /\ [][/\ ~KeySet => files' = files
          /\ (pc = "ensure_template" /\ TEMPLATE_FILE \notin DOMAIN files) =>
                 /\ Ops' = Append(Ops, "create_example_template")
                 /\ TEMPLATE_FILE \in DOMAIN files'
                 /\ ~constructed']_vars

C24_Witness ==
    /\ pc = "exited"
    /\ exit_status = "0"
    /\ Ops = <<"create_example_template", "TemplateProcessor", "process", "request",
               "display_response">>

HasErrorKey(value) == value.type = "dict" /\ "error" \in DOMAIN value.val

\* make_api_request has ended: main displays its result or has handled its
\* exception
RequestEnded == conn.opened > 0 /\ pc \in {"display", "exited"}

\* C27: make_api_request closes the connection it opened exactly once on
\* every path, it returns a result only when the parsed response has no
\* 'error' key, and a response with an 'error' key raises.
C27_ClosedOnceAndRaisesOnError ==
    /\ conn.opened <= 1
    /\ pc \in {"send", "receive", "parse", "close"} => conn = [opened |-> 1, closed |-> 0]
    /\ RequestEnded => conn = [opened |-> 1, closed |-> 1]
    /\ pc = "display" =>
           /\ response.raised = ""
           /\ response.body.type = "json"
           /\ response.result = response.body.val
           /\ ~HasErrorKey(response.result)
    /\ (RequestEnded /\ response.body.type = "json" /\ HasErrorKey(response.body.val)) =>
           response.raised # ""

C27_Witness ==
    /\ RequestEnded
    /\ response.body = Json(Dict("error" :> ErrorMessage))
    /\ response.raised = "Exception"
    /\ conn.closed = 1

----------------------------------------------------------------------------
(* The tool calls of 11_tool_use main, checked under SpecTools *)

IsExecution(e) == e.op = "execute_tool"
IsGroqRequest(e) == e.op = "request" /\ e.detail.host = "api.demeterics.com"
IsToolRequest(e) == e.op = "request" /\ e.detail.host = "api.tavily.com"

\* the calls of execute_tool and the requests to the model, in order
Executions == SelectSeq(trace, IsExecution)
GroqRequests == SelectSeq(trace, IsGroqRequest)

\* the initial response asked for tool calls, and the list of them
AskedForTools == truthy(tool_calls)
Asked == tool_calls.val

\* C25: the tools are executed one at a time in the order of tool_calls, one
\* 'tool' message is appended per executed call and carries its id, and the
\* final request is sent only after all the tool calls have executed, with
\* the messages [user query, assistant message, tool messages in order] and
\* without tool definitions; without tool calls no tool is executed and no
\* second request is sent.
C25_ToolsInOrder ==
    /\ Len(GroqRequests) <= 2
    /\ ~AskedForTools => (Executions = <<>> /\ tool_messages = <<>> /\ Len(GroqRequests) <= 1)
    /\ AskedForTools =>
           /\ Len(Executions) <= Len(Asked)
           /\ \A n \in 1..Len(Executions) :
                  Executions[n].detail =
                      [id |-> Asked[n].id, name |-> Asked[n].function.name]
           /\ Len(tool_messages) \in {Len(Executions), Len(Executions) - 1}
           /\ \A n \in 1..Len(tool_messages) :
                  /\ tool_messages[n].role = "tool"
                  /\ tool_messages[n].tool_call_id = Asked[n].id
           /\ Len(GroqRequests) = 2 =>
                  /\ Len(Executions) = Len(Asked)
                  /\ Len(tool_messages) = Len(Asked)
                  /\ trace[Len(trace)] = GroqRequests[2]
                  /\ GroqRequests[2].detail.body =
                         request_data(<<UserQueryMessage, response.result>> \o tool_messages,
                                      None)
                  /\ "tools" \notin DOMAIN GroqRequests[2].detail.body

C25_Witness ==
    /\ pc = "exited"
    /\ exit_status = "0"
    /\ Len(GroqRequests) = 2
    /\ Len(tool_messages) = 2
    /\ Asked[1].function.name = "tavily_extract"
    /\ Asked[2].function.name = "tavily_search"

Unknown(n) == Asked[n].function.name \notin {"tavily_search", "tavily_extract"}

\* C26: execute_tool called for a function other than tavily_search and
\* tavily_extract raises ValueError and sends no request; the script then
\* ends with status 1, no later tool call is executed and the final request
\* is never sent.
C26_UnknownToolEndsRun ==
    AskedForTools =>
        /\ \A n \in 1..Len(Executions) :
               Unknown(n) =>
                   /\ n = Len(Executions)
                   /\ trace[Len(trace)] = Executions[n]
                   /\ response.raised = "ValueError"
                   /\ pc = "exited" /\ exit_status = "1"
                   /\ Len(tool_messages) = n - 1
                   /\ Len(GroqRequests) = 1
        /\ (\E n \in 1..Len(Asked) : Unknown(n)) =>
               /\ Len(GroqRequests) = 1
               /\ pc = "exited" => exit_status = "1"

C26_Witness ==
    /\ AskedForTools
    /\ Len(Asked) = 2
    /\ Len(Executions) = 1
    /\ Unknown(1)
    /\ pc = "exited"

====
